---- MODULE Spec2Model ----
(***************************************************************************)
(* The worker runtime of syft/workers/base.py (class BaseWorker): the      *)
(* worker registry, the object store behind register/get/de-register, the  *)
(* message dispatch (send_msg / recv_msg), remote command execution and    *)
(* search.                                                                 *)
(*                                                                         *)
(* Python objects are modelled by reference: a worker instance is a number *)
(* of Inst, and the dictionaries an instance holds (_known_workers, the    *)
(* object store, msg_history) live in heaps indexed by a reference, because *)
(* __init__ may make two instances share them (self.__dict__.update).      *)
(***************************************************************************)
EXTENDS Integers, Sequences, FiniteSets, TLC

\* ---------------------------------------------------------------- bounds
NumInst == 2      \* worker instances that can be constructed
MaxWid == 1       \* worker ids are 0..MaxWid
MaxAddList == 2   \* longest list handed to add_workers

Inst == 1..NumInst
WorkerIds == 0..MaxWid
\* concrete worker classes: "Sub" is a subclass of "Base", "Other" is unrelated
Kinds == {"Base", "Sub", "Other"}

VARIABLES
    alive,              \* the constructed worker instances
    wid,                \* self.id
    wkind,              \* type(self)
    is_client_worker,   \* self.is_client_worker
    log_msgs,           \* self.log_msgs
    kwRef,              \* which dictionary self._known_workers is
    osRef,              \* which ObjectStore self.object_store is
    mhRef,              \* which list self.msg_history is
    _message_router,    \* self._message_router: message type -> bound handler
    _known_workers,     \* heap: reference -> (worker id -> instance)
    _objects,           \* heap: reference -> (object id -> object)
    msg_history,        \* heap: reference -> sequence of messages
    local_worker,       \* hook.local_worker, the global default worker
    ID_PROVIDER,        \* sy.ID_PROVIDER, the process-wide id provider
    nops,               \* how many operations have run (bounded specifications)
    stack,              \* the send_msg and recv_msg calls in progress, innermost last
    last                \* what the last operation was and what it returned

workerVars == <<alive, wid, wkind, is_client_worker, log_msgs, kwRef, osRef, mhRef,
                _message_router>>
heapVars == <<_known_workers, _objects, msg_history>>
\* what the registry operations never touch
envVars == <<local_worker, ID_PROVIDER, nops, stack>>
vars == <<workerVars, heapVars, envVars, last>>

\* ------------------------------------------------------- python dictionaries
EmptyDict == <<>>
Put(d, k, v) == [x \in (DOMAIN d) \cup {k} |-> IF x = k THEN v ELSE d[x]]
Del(d, k) == [x \in (DOMAIN d) \ {k} |-> d[x]]
Values(d) == {d[x] : x \in DOMAIN d}

\* return values: a worker instance, a raw id, or nothing
RetWorker(w) == [t |-> "worker", v |-> w]
RetId(x) == [t |-> "id", v |-> x]
RetNone == [t |-> "none", v |-> 0]

\* ------------------------------------------------------- the message router
\* the dictionary display of __init__, in the order it is written
RouterDisplay ==
    << <<"TensorCommandMessage", "execute_tensor_command">>,
       <<"PlanCommandMessage", "execute_plan_command">>,
       <<"WorkerCommandMessage", "execute_worker_command">>,
       <<"ObjectMessage", "handle_object_msg">>,
       <<"ObjectRequestMessage", "respond_to_obj_req">>,
       <<"ForceObjectDeleteMessage", "handle_delete_object_msg">>,
       <<"ForceObjectDeleteMessage", "handle_force_delete_object_msg">>,
       <<"IsNoneMessage", "is_object_none">>,
       <<"GetShapeMessage", "handle_get_shape_message">>,
       <<"SearchMessage", "respond_to_search">> >>

RECURSIVE DictDisplay_first_wins(_)
RECURSIVE DictDisplay(_)
\* a dictionary display in which the first value given for a key stays
DictDisplay_first_wins(pairs) ==
    IF pairs = <<>> THEN EmptyDict
    ELSE Put(DictDisplay_first_wins(Tail(pairs)), Head(pairs)[1], Head(pairs)[2])

\* a python dictionary display {k1: v1, k2: v2, ...}: the pairs are stored
\* from left to right, a later value for a key replaces the earlier one
DictDisplay(pairs) ==
    IF pairs = <<>> THEN EmptyDict
    ELSE LET n == Len(pairs) IN
         Put(DictDisplay(SubSeq(pairs, 1, n - 1)), pairs[n][1], pairs[n][2])

\* self._message_router = {...}: every handler is a method bound to self
NewRouter(self) ==
    LET d == DictDisplay(RouterDisplay) IN
    [k \in DOMAIN d |-> [handler |-> d[k], self |-> self]]

\* ------------------------------------------------------------ the registry
\* self._known_workers of instance w
Registry(w) == _known_workers[kwRef[w]]

\* isinstance(existing, type(new)): the existing worker's class is the new
\* worker's class or a subclass of it
IsInstance(existingKind, newKind) ==
    \/ existingKind = newKind
    \/ existingKind = "Sub" /\ newKind = "Base"

\* add_worker on the registry r of self: self._known_workers[worker.id] = worker
\* (it replaces an entry with the same id, after a warning)
add_worker_propagating(kw, r, worker_id, worker) ==
    [x \in DOMAIN kw |-> Put(kw[x], worker_id, worker)]
add_worker(kw, r, worker_id, worker) ==
    [kw EXCEPT ![r] = Put(@, worker_id, worker)]

\* add_workers: add_worker for each worker of the list, in order
RECURSIVE add_workers(_, _, _)
add_workers(kw, r, workers) ==
    IF workers = <<>> THEN kw
    ELSE add_workers(add_worker(kw, r, wid[Head(workers)], Head(workers)), r, Tail(workers))

\* _get_worker_based_on_id: [ret, err]
_get_worker_lookup_only(self, worker_id, fail_hard) ==
    IF worker_id \in DOMAIN Registry(self)
    THEN [ret |-> RetWorker(Registry(self)[worker_id]), err |-> "none"]
    ELSE IF fail_hard THEN [ret |-> RetNone, err |-> "WorkerNotFoundException"]
         ELSE [ret |-> RetId(worker_id), err |-> "none"]
\* a resolution that raises for every unknown id
_get_worker_always_strict(self, worker_id, fail_hard) ==
    IF worker_id = wid[self]
    THEN [ret |-> RetWorker(self), err |-> "none"]
    ELSE IF worker_id \in DOMAIN Registry(self)
         THEN [ret |-> RetWorker(Registry(self)[worker_id]), err |-> "none"]
         ELSE [ret |-> RetNone, err |-> "WorkerNotFoundException"]
_get_worker_based_on_id(self, worker_id, fail_hard) ==
    IF worker_id = wid[self]
    THEN [ret |-> RetWorker(self), err |-> "none"]
    ELSE IF worker_id \in DOMAIN Registry(self)
         THEN [ret |-> RetWorker(Registry(self)[worker_id]), err |-> "none"]
         ELSE IF fail_hard THEN [ret |-> RetNone, err |-> "WorkerNotFoundException"]
              ELSE [ret |-> RetId(worker_id), err |-> "none"]

\* _get_worker: a worker handle that is not known yet is registered first
_get_worker(kw, self, worker) ==
    IF wid[worker] \notin DOMAIN kw[kwRef[self]]
    THEN add_worker(kw, kwRef[self], wid[worker], worker)
    ELSE kw


\* ---------------------------------------------------------- stored objects
\* A stored object.  kind: "tensor", "plan", "protocol" or "pointer"; private:
\* the object has a true .private; has_allow / allowed_users: the object has an
\* allow(user) method, true for the users of the set; gc: the GC toggle of its
\* child ("none" when it has no toggle, else "collect" or "keep"); origin:
\* <<origin, id_at_origin>>, or <<>> when both are None; location and
\* id_at_location: set on pointers only.
Users == {"u1", "u2"}
NoUser == "none"

Tensor(id, val, tags, owner) ==
    [kind |-> "tensor", id |-> id, val |-> val, tags |-> tags, private |-> FALSE,
     has_allow |-> FALSE, allowed_users |-> {}, gc |-> "none", owner |-> owner,
     origin |-> <<>>, location |-> 0, id_at_location |-> 0]

\* None
NoObj == [kind |-> "none"]

RetObj(o) == IF o.kind = "none" THEN RetNone ELSE [t |-> "obj", v |-> o]

\* ------------------------------------------------------------ sy.ID_PROVIDER
\* next: the next id the generator draws (ids are never drawn twice);
\* given: the ids set_next_ids queued, served before any new id is drawn;
\* recorded: the ids popped since start_recording_ids
NewIdProvider(first) ==
    [next |-> first, given |-> <<>>, recording |-> FALSE, recorded |-> <<>>]

\* ID_PROVIDER.pop(): [id, idp]
IdPop(idp) ==
    LET fromGiven == idp.given # <<>>
        id == IF fromGiven THEN idp.given[Len(idp.given)] ELSE idp.next
        idp1 == IF fromGiven
                THEN [idp EXCEPT !.given = SubSeq(@, 1, Len(@) - 1)]
                ELSE [idp EXCEPT !.next = @ + 1]
    IN  [id |-> id,
         idp |-> IF idp.recording THEN [idp1 EXCEPT !.recorded = Append(@, id)] ELSE idp1]

\* ID_PROVIDER.set_next_ids(given_ids, check_ids=False): the ids are queued
set_next_ids(idp, given_ids) == [idp EXCEPT !.given = @ \o given_ids]

\* ID_PROVIDER.start_recording_ids()
start_recording_ids(idp) == [idp EXCEPT !.recording = TRUE, !.recorded = <<>>]

\* ID_PROVIDER.get_recorded_ids(): [ids, idp]; recording stops
get_recorded_ids(idp) ==
    [ids |-> idp.recorded, idp |-> [idp EXCEPT !.recording = FALSE, !.recorded = <<>>]]

\* ObjectStore.register_obj(obj, obj_id): the object takes obj_id when one is
\* given and is stored under its id
store_register_obj(os, r, obj, obj_id) ==
    LET o == IF obj_id = 0 THEN obj ELSE [obj EXCEPT !.id = obj_id]
    IN  [os EXCEPT ![r] = Put(@, o.id, o)]

\* a register_obj that does not look at is_client_worker
register_obj_always(os, r, client, obj, obj_id) ==
    store_register_obj(os, r, obj, obj_id)

\* BaseWorker.register_obj: a client worker registers nothing
register_obj(os, r, client, obj, obj_id) ==
    IF ~client THEN store_register_obj(os, r, obj, obj_id) ELSE os

\* load_data: register every tensor of data and make self its owner
RECURSIVE load_data(_, _, _, _, _)
load_data(os, r, client, self, data) ==
    IF data = <<>> THEN os
    ELSE load_data(register_obj(os, r, client, [Head(data) EXCEPT !.owner = self], 0),
                   r, client, self, Tail(data))

\* ------------------------------------------------------------ construction
RECURSIVE CrossLink_one_way(_, _, _, _, _)
RECURSIVE CrossLink(_, _, _, _, _)
\* a loop in which self learns the workers the default knows and they do not
\* learn self
CrossLink_one_way(kw, self, selfId, known, todo) ==
    IF todo = {} THEN kw
    ELSE LET worker_id == CHOOSE x \in todo : TRUE
             kw1 == IF worker_id \notin DOMAIN kw[self]
                    THEN add_worker(kw, self, worker_id, known[worker_id]) ELSE kw
         IN  CrossLink_one_way(kw1, self, selfId, known, todo \ {worker_id})

\* the loop of __init__ over hook.local_worker._known_workers.items(): self
\* learns every worker the default knows, and each of them learns self
CrossLink(kw, self, selfId, known, todo) ==
    IF todo = {} THEN kw
    ELSE LET worker_id == CHOOSE x \in todo : TRUE
             worker == known[worker_id]
             wr == IF worker = self THEN self ELSE kwRef[worker]
             kw1 == IF worker_id \notin DOMAIN kw[self]
                    THEN add_worker(kw, self, worker_id, worker) ELSE kw
             kw2 == IF selfId \notin DOMAIN kw1[wr]
                    THEN add_worker(kw1, wr, selfId, self) ELSE kw1
         IN  CrossLink(kw2, self, selfId, known, todo \ {worker_id})

\* a construction that never finds its id taken
InitBranch_never_taken(id, kind, auto_add, hookGiven) ==
    IF ~auto_add THEN "no_auto_add"
    ELSE IF ~(hookGiven /\ local_worker # 0) THEN "self_add"
    ELSE "cross_link"

\* which branch of __init__ a construction takes
InitBranch(id, kind, auto_add, hookGiven) ==
    IF ~auto_add THEN "no_auto_add"
    ELSE IF ~(hookGiven /\ local_worker # 0) THEN "self_add"
    ELSE IF id \notin DOMAIN Registry(local_worker) THEN "cross_link"
    ELSE IF IsInstance(wkind[Registry(local_worker)[id]], kind) THEN "adopt"
    ELSE "RuntimeError"

\* BaseWorker.__init__ for the new instance self
Construct(self, id, kind, client, log, auto_add, hookGiven, data) ==
    LET branch == InitBranch(id, kind, auto_add, hookGiven)
        os0 == load_data(Put(_objects, self, EmptyDict), self, client, self, data)
        kw0 == Put(_known_workers, self, EmptyDict)
        rec == [op |-> "init", self |-> self, id |-> id, kind |-> kind,
                auto_add |-> auto_add, hookGiven |-> hookGiven, branch |-> branch]
    IN
    /\ self \notin alive
    /\ last' = rec
    /\ UNCHANGED envVars
    /\ IF branch = "RuntimeError"
       THEN UNCHANGED <<workerVars, heapVars>>
       ELSE
         /\ alive' = alive \cup {self}
         /\ wid' = Put(wid, self, id)
         /\ wkind' = Put(wkind, self, kind)
         /\ IF branch = "adopt"
            THEN LET e == Registry(local_worker)[id] IN
                 \* self.__dict__.update(existing.__dict__): every attribute of
                 \* self now refers to what the existing worker's attribute does
                 /\ is_client_worker' = Put(is_client_worker, self, is_client_worker[e])
                 /\ log_msgs' = Put(log_msgs, self, log_msgs[e])
                 /\ kwRef' = Put(kwRef, self, kwRef[e])
                 /\ osRef' = Put(osRef, self, osRef[e])
                 /\ mhRef' = Put(mhRef, self, mhRef[e])
                 /\ _message_router' = Put(_message_router, self, _message_router[e])
                 /\ UNCHANGED heapVars
            ELSE /\ is_client_worker' = Put(is_client_worker, self, client)
                 /\ log_msgs' = Put(log_msgs, self, log)
                 /\ kwRef' = Put(kwRef, self, self)
                 /\ osRef' = Put(osRef, self, self)
                 /\ mhRef' = Put(mhRef, self, self)
                 /\ _message_router' = Put(_message_router, self, NewRouter(self))
                 /\ _objects' = os0
                 /\ msg_history' = Put(msg_history, self, <<>>)
                 /\ _known_workers' =
                      CASE branch = "no_auto_add" -> kw0
                        [] branch = "self_add" -> add_worker(kw0, self, id, self)
                        [] branch = "cross_link" ->
                             LET kw1 == add_worker(kw0, kwRef[local_worker], id, self)
                                 known == kw1[kwRef[local_worker]]
                             IN  CrossLink(kw1, self, id, known, DOMAIN known)

\* ------------------------------------------------------ registry operations
AddWorker(self, worker) ==
    /\ self \in alive /\ worker \in alive
    /\ _known_workers' = add_worker(_known_workers, kwRef[self], wid[worker], worker)
    /\ last' = [op |-> "add_worker", self |-> self, worker |-> worker]
    /\ UNCHANGED <<workerVars, _objects, msg_history, envVars>>

AddWorkers(self, workers) ==
    /\ self \in alive
    /\ \A n \in DOMAIN workers : workers[n] \in alive
    /\ _known_workers' = add_workers(_known_workers, kwRef[self], workers)
    /\ last' = [op |-> "add_workers", self |-> self]
    /\ UNCHANGED <<workerVars, _objects, msg_history, envVars>>

\* remove_worker_from_registry: del self._known_workers[worker_id]
\* (a KeyError, and no change, when the id is not a key)
RemoveWorkerFromRegistry(self, worker_id) ==
    /\ self \in alive
    /\ IF worker_id \in DOMAIN Registry(self)
       THEN /\ _known_workers' = [_known_workers EXCEPT ![kwRef[self]] = Del(@, worker_id)]
            /\ last' = [op |-> "remove_worker", err |-> "none"]
       ELSE /\ UNCHANGED _known_workers
            /\ last' = [op |-> "remove_worker", err |-> "KeyError"]
    /\ UNCHANGED <<workerVars, _objects, msg_history, envVars>>

\* get_worker with an id: resolution only, the registry is not written
GetWorkerById(self, worker_id, fail_hard) ==
    /\ self \in alive
    /\ LET res == _get_worker_based_on_id(self, worker_id, fail_hard) IN
       last' = [op |-> "get_worker", by |-> "id", self |-> self, worker_id |-> worker_id,
                fail_hard |-> fail_hard, ret |-> res.ret, err |-> res.err]
    /\ UNCHANGED <<workerVars, heapVars, envVars>>

\* get_worker with a worker handle
GetWorkerByHandle(self, worker) ==
    /\ self \in alive /\ worker \in alive
    /\ _known_workers' = _get_worker(_known_workers, self, worker)
    /\ last' = [op |-> "get_worker", by |-> "handle", err |-> "none"]
    /\ UNCHANGED <<workerVars, _objects, msg_history, envVars>>

\* --------------------------------------------- specification: the registry
\* The state after the hook has built its local worker: a client worker with
\* id 0 that was constructed before hook.local_worker was set and therefore
\* added itself to its own registry.
InitReg ==
    /\ alive = {1}
    /\ wid = (1 :> 0)
    /\ wkind = (1 :> "Base")
    /\ is_client_worker = (1 :> TRUE)
    /\ log_msgs = (1 :> FALSE)
    /\ kwRef = (1 :> 1)
    /\ osRef = (1 :> 1)
    /\ mhRef = (1 :> 1)
    /\ _message_router = (1 :> NewRouter(1))
    /\ _known_workers = (1 :> (0 :> 1))
    /\ _objects = (1 :> EmptyDict)
    /\ msg_history = (1 :> <<>>)
    /\ local_worker = 1
    /\ ID_PROVIDER = NewIdProvider(1)
    /\ nops = 0
    /\ stack = <<>>
    /\ last = [op |-> "start"]

\* instances are constructed in order
NextInst == Cardinality(alive) + 1

\* the registry specification constructs workers of one class
RegKinds == {"Base"}

WorkerLists == UNION {[1..n -> alive] : n \in 0..MaxAddList}

NextReg ==
    \/ \E id \in WorkerIds, kind \in RegKinds, auto_add \in BOOLEAN, hookGiven \in BOOLEAN :
          /\ NextInst \in Inst
          /\ Construct(NextInst, id, kind, FALSE, FALSE, auto_add, hookGiven, <<>>)
    \/ \E self \in alive, worker \in alive : AddWorker(self, worker)
    \/ \E self \in alive, workers \in WorkerLists : AddWorkers(self, workers)
    \/ \E self \in alive, worker_id \in WorkerIds : RemoveWorkerFromRegistry(self, worker_id)
    \/ \E self \in alive, worker_id \in WorkerIds, fail_hard \in BOOLEAN :
          GetWorkerById(self, worker_id, fail_hard)
    \/ \E self \in alive, worker \in alive : GetWorkerByHandle(self, worker)

SpecReg == InitReg /\ [][NextReg]_vars


\* ------------------------------------------------------ claims: the registry
Knows(w, x) == wid[x] \in DOMAIN Registry(w) /\ Registry(w)[wid[x]] = x

C10_AddPropagates ==
    last.op = "add_worker" =>
        /\ Knows(last.worker, last.self)
        /\ \A w \in Values(Registry(last.worker)) : Knows(w, last.self)

\* C10 (amended): add is local.  A's add(B) writes the entry B.id -> B into
\* A's own registry and changes no other registry; nothing is propagated to B
\* or to the workers B knows.
C10_AddIsLocal ==
    [][last'.op = "add_worker" =>
         /\ _known_workers'[kwRef[last'.self]]
               = Put(_known_workers[kwRef[last'.self]], wid[last'.worker], last'.worker)
         /\ DOMAIN _known_workers' = DOMAIN _known_workers
         /\ \A r \in DOMAIN _known_workers :
               r # kwRef[last'.self] => _known_workers'[r] = _known_workers[r]]_vars

\* C10 witness: A has added another worker B whose registry does not hold A.
C10_Witness ==
    /\ last.op = "add_worker"
    /\ last.self # last.worker
    /\ kwRef[last.self] # kwRef[last.worker]
    /\ ~Knows(last.worker, last.self)
    /\ Knows(last.self, last.worker)

\* C14: resolving an id that is neither the worker's own id nor a key of its
\* registry raises WorkerNotFoundException with fail_hard and returns the id
\* itself without it; resolving the worker's own id returns the worker, with or
\* without a registry entry for it; the registries are left as they were.
C14_ResolveStrict ==
    [][(last'.op = "get_worker" /\ last'.by = "id") =>
          LET w == last'.self
              i == last'.worker_id
          IN  /\ UNCHANGED _known_workers
              /\ i = wid[w] => (last'.ret = RetWorker(w) /\ last'.err = "none")
              /\ (i # wid[w] /\ i \notin DOMAIN Registry(w)) =>
                    IF last'.fail_hard
                    THEN last'.err = "WorkerNotFoundException"
                    ELSE last'.err = "none" /\ last'.ret = RetId(i)]_vars

\* C14 witness: an id the worker does not know was resolved without fail_hard
\* and came back as the id.
C14_Witness ==
    /\ last.op = "get_worker" /\ last.by = "id"
    /\ last.worker_id # wid[last.self]
    /\ last.worker_id \notin DOMAIN Registry(last.self)
    /\ ~last.fail_hard
    /\ last.ret = RetId(last.worker_id) /\ last.err = "none"

\* ------------------------------------------- specification: construction
MaxBuilt == 3     \* workers constructed after the default worker
MaxInitId == 3    \* their ids are 0..MaxInitId; 0 is the default worker's id

\* the arguments is_client_worker, log_msgs and data of a construction
InitArgs ==
    {[client |-> FALSE, log |-> TRUE, data |-> <<Tensor(1, 1, {}, 0)>>],
     [client |-> TRUE, log |-> FALSE, data |-> <<>>]}

NextInit ==
    \E id \in 0..MaxInitId, kind \in Kinds, auto_add \in BOOLEAN, hookGiven \in BOOLEAN,
       a \in InitArgs :
       /\ NextInst \in 2..(MaxBuilt + 1)
       /\ Construct(NextInst, id, kind, a.client, a.log, auto_add, hookGiven, a.data)

SpecInit == InitReg /\ [][NextInit]_vars

\* ---------------------------------------------------- claims: construction
\* the workers the default worker knows
DefaultKnows == Values(Registry(local_worker))

\* C11: after constructions against one default worker, every worker in the
\* default's registry has itself and every other worker of that registry in
\* its own registry, each id mapped to the right instance.
C11_CrossLinked == \A w \in DefaultKnows, x \in DefaultKnows : Knows(w, x)

\* C11 witness: three constructions with auto_add and distinct ids have put
\* four workers into the default's registry.
C11_Witness ==
    /\ Cardinality(DefaultKnows) = MaxBuilt + 1
    /\ last.op = "init" /\ last.branch = "cross_link"

\* the construction that has just run found its id registered at the default
\* worker, for the worker existing
Reconstructs(existing) ==
    /\ last'.op = "init" /\ last'.auto_add /\ last'.hookGiven
    /\ last'.id \in DOMAIN Registry(local_worker)
    /\ existing = Registry(local_worker)[last'.id]

\* the new instance has what the existing worker has
SameState(new, existing) ==
    /\ wid'[new] = wid[existing]
    /\ is_client_worker'[new] = is_client_worker[existing]
    /\ log_msgs'[new] = log_msgs[existing]
    /\ _known_workers'[kwRef'[new]] = _known_workers[kwRef[existing]]
    /\ _objects'[osRef'[new]] = _objects[osRef[existing]]
    /\ msg_history'[mhRef'[new]] = msg_history[mhRef[existing]]

\* no existing worker has changed
OthersUnchanged ==
    /\ \A w \in alive :
          /\ w \in alive' /\ wid'[w] = wid[w] /\ wkind'[w] = wkind[w]
          /\ is_client_worker'[w] = is_client_worker[w] /\ log_msgs'[w] = log_msgs[w]
          /\ _known_workers'[kwRef'[w]] = _known_workers[kwRef[w]]
          /\ _objects'[osRef'[w]] = _objects[osRef[w]]
          /\ msg_history'[mhRef'[w]] = msg_history[mhRef[w]]

\* C12: a construction with auto_add whose id is registered at the default
\* worker under a worker of the same concrete kind changes no existing worker,
\* and the new instance has the existing worker's store, registry, flags and
\* message log, whatever arguments the constructor was given; so does every
\* repetition of the construction.
C12_ReconstructionAdopts ==
    [][\A e \in alive :
          (Reconstructs(e) /\ wkind[e] = last'.kind)
             => (OthersUnchanged /\ last'.self \in alive' /\ SameState(last'.self, e))]_vars

\* C12 witness: a worker that holds data and logs messages has been constructed
\* a third time, with other arguments.
C12_Witness ==
    /\ last.op = "init" /\ last.branch = "adopt" /\ last.self = MaxBuilt + 1
    /\ \E e \in alive \ {last.self}, f \in alive \ {last.self} :
          /\ e # f /\ wid[e] = last.id /\ wid[f] = last.id
          /\ wkind[e] = last.kind
          /\ osRef[last.self] = osRef[e] /\ osRef[f] = osRef[e]
          /\ _objects[osRef[e]] # EmptyDict /\ log_msgs[last.self]

\* C13 as stated: a construction with auto_add whose id is registered at the
\* default worker under a worker of a different concrete kind fails with the
\* configuration error and changes no registry.
C13_DifferentKindFails ==
    [][\A e \in alive :
          (Reconstructs(e) /\ wkind[e] # last'.kind)
             => (last'.branch = "RuntimeError" /\ UNCHANGED <<workerVars, heapVars>>)]_vars


\* =========================================================================
\* The object store and the messages that move objects
\* =========================================================================
\* The heaps while an operation runs: os the object stores, kw the registries,
\* mh the message logs, idp the id provider; calls lists what the operations of
\* computation commands were invoked on since the operation began.
Heaps ==
    [os |-> _objects, kw |-> _known_workers, mh |-> msg_history, idp |-> ID_PROVIDER,
     calls |-> <<>>]

Raise(st, e) == [st |-> st, ret |-> RetNone, err |-> e]
Return(st, v) == [st |-> st, ret |-> v, err |-> "none"]

\* ObjectStore.set_obj: self._objects[obj.id] = obj
set_obj(st, self, obj) == [st EXCEPT !.os[osRef[self]] = Put(@, obj.id, obj)]

\* ObjectStore.rm_obj: the entry is dropped when there is one
rm_obj(st, self, obj_id) == [st EXCEPT !.os[osRef[self]] = Del(@, obj_id)]

\* ObjectStore.de_register_obj: an object that has an id leaves the store
store_de_register_obj(st, self, obj) ==
    IF obj.kind = "none" THEN st ELSE rm_obj(st, self, obj.id)

\* BaseWorker.de_register_obj: a client worker de-registers nothing
de_register_obj(st, self, obj) ==
    IF ~is_client_worker[self] THEN store_de_register_obj(st, self, obj) ELSE st

\* BaseWorker.register_obj on the heaps
worker_register_obj(st, self, obj, obj_id) ==
    [st EXCEPT !.os = register_obj(@, osRef[self], is_client_worker[self], obj, obj_id)]

\* a get_obj that answers a private entry before it looks at the GC toggle
get_obj_private_first(st, self, obj_id) ==
    IF obj_id \notin DOMAIN st.os[osRef[self]]
    THEN [st |-> st, obj |-> NoObj, err |-> "ObjectNotFoundError"]
    ELSE LET o == st.os[osRef[self]][obj_id]
             o1 == IF o.gc # "none" THEN [o EXCEPT !.gc = "keep"] ELSE o
             st1 == [st EXCEPT !.os[osRef[self]][obj_id] = o1]
         IN  IF o.private THEN [st |-> st, obj |-> NoObj, err |-> "none"]
             ELSE [st |-> st1, obj |-> o1, err |-> "none"]

\* a get_obj that leaves the GC toggle as it is
get_obj_no_toggle(st, self, obj_id) ==
    IF obj_id \notin DOMAIN st.os[osRef[self]]
    THEN [st |-> st, obj |-> NoObj, err |-> "ObjectNotFoundError"]
    ELSE LET o == st.os[osRef[self]][obj_id]
         IN  [st |-> st, obj |-> IF o.private THEN NoObj ELSE o, err |-> "none"]

\* get_obj: [st, obj, err].  The lookup raises when the id has no entry; a GC
\* toggle of the entry is set to "keep"; a private entry is answered by None.
get_obj(st, self, obj_id) ==
    IF obj_id \notin DOMAIN st.os[osRef[self]]
    THEN [st |-> st, obj |-> NoObj, err |-> "ObjectNotFoundError"]
    ELSE LET o == st.os[osRef[self]][obj_id]
             o1 == IF o.gc # "none" THEN [o EXCEPT !.gc = "keep"] ELSE o
             st1 == [st EXCEPT !.os[osRef[self]][obj_id] = o1]
         IN  [st |-> st1, obj |-> IF o1.private THEN NoObj ELSE o1, err |-> "none"]

\* serde: an object that crosses a worker boundary is rebuilt at the receiving
\* worker, which becomes its owner; everything else it carries is kept
deserialize(obj, worker) ==
    IF obj.kind = "none" THEN obj ELSE [obj EXCEPT !.owner = worker]

\* ------------------------------------------------------------------ search
Tags == {"t1", "t2", "t3"}

\* a query term is a tag or an id
TagTerm(tag) == [t |-> "tag", tag |-> tag, id |-> 0]
IdTerm(id) == [t |-> "id", tag |-> "", id |-> id]

\* ObjectStore.find_by_id: the ids of the entry stored under a term that is an
\* id (a set of at most one id; empty stands for None)
find_by_id(st, self, term) ==
    IF term.t = "id" /\ term.id \in DOMAIN st.os[osRef[self]] THEN {term.id} ELSE {}

\* ObjectStore.find_by_tag: the ids of the entries that carry the tag
find_by_tag(st, self, term) ==
    IF term.t # "tag" THEN {}
    ELSE {i \in DOMAIN st.os[osRef[self]] : term.tag \in st.os[osRef[self]][i].tags}

\* ObjectStore._tag_to_object_ids: the ids of the entries that carry some tag
TaggedIds(st, self) == {i \in DOMAIN st.os[osRef[self]] : st.os[osRef[self]][i].tags # {}}

\* the loop of search over query[n..], results being None (none = TRUE) or a
\* set of ids
RECURSIVE search_loop(_, _, _, _, _, _)
search_loop(st, self, query, n, none, results) ==
    IF n > Len(query) THEN IF none THEN {} ELSE results
    ELSE LET result_by_id == find_by_id(st, self, query[n])
             results_by_tag == find_by_tag(st, self, query[n])
         IN  IF result_by_id # {} THEN result_by_id
             \* if results: an empty set and None both take the else branch
             ELSE IF ~none /\ results # {}
                  THEN search_loop(st, self, query, n + 1, FALSE, results \cap results_by_tag)
                  ELSE search_loop(st, self, query, n + 1, FALSE, results_by_tag)

\* the empty query: get_obj on every tagged entry, one after the other
RECURSIVE get_all(_, _, _)
get_all(st, self, ids) ==
    IF ids = {} THEN [st |-> st, objs |-> {}]
    ELSE LET i == CHOOSE x \in ids : \A y \in ids : x <= y
             g == get_obj(st, self, i)
             rest == get_all(g.st, self, ids \ {i})
         IN  [st |-> rest.st, objs |-> {g.obj} \cup rest.objs]

\* a search that keeps, of the object found by id, only what carries every tag
\* term of the query
search_id_filtered(st, self, query) ==
    IF Len(query) = 0
    THEN LET all == get_all(st, self, TaggedIds(st, self)) IN
         Return(all.st, [t |-> "list", v |-> all.objs])
    ELSE Return(st, [t |-> "list",
                     v |-> {st.os[osRef[self]][i] :
                               i \in {j \in search_loop(st, self, query, 1, TRUE, {}) :
                                         \A n \in 1..Len(query) :
                                            query[n].t = "tag" =>
                                               query[n].tag \in st.os[osRef[self]][j].tags}}])

\* search: [st, ret, err], ret the set of the objects in the returned list
search(st, self, query) ==
    IF Len(query) = 0
    THEN LET all == get_all(st, self, TaggedIds(st, self)) IN
         Return(all.st, [t |-> "list", v |-> all.objs])
    ELSE Return(st, [t |-> "list",
                     v |-> {st.os[osRef[self]][i] :
                               i \in search_loop(st, self, query, 1, TRUE, {})}])

\* ---------------------------------------------------------------- messages
ObjectMessage(obj) == [type |-> "ObjectMessage", object |-> obj]
ObjectRequestMessage(obj_id, user) ==
    [type |-> "ObjectRequestMessage", object_id |-> obj_id, user |-> user]
\* TensorCommandMessage.communication: target is the (id, owner) of the object
\* to move, args the destination worker ids
CommunicationMessage(target_id, target_owner, args, requires_grad) ==
    [type |-> "TensorCommandMessage", action |-> "communication",
     target_id |-> target_id, target_owner |-> target_owner, args |-> args,
     requires_grad |-> requires_grad]

\* a receiver that acknowledges the object without storing it
handle_object_msg_dropping(st, self, msg) ==
    IF msg.object.kind = "none" THEN Raise(st, "AttributeError")
    ELSE Return(st, RetNone)

\* handle_object_msg: the received object is stored under its id
handle_object_msg(st, self, msg) ==
    IF msg.object.kind = "none" THEN Raise(st, "AttributeError")
    ELSE Return(set_obj(st, self, deserialize(msg.object, self)), RetNone)

\* respond_to_obj_req: permission check, then the object leaves the store
respond_to_obj_req(st, self, msg) ==
    LET g == get_obj(st, self, msg.object_id) IN
    IF g.err # "none" THEN Raise(g.st, g.err)
    ELSE IF g.obj.kind # "none" /\ g.obj.has_allow /\ msg.user \notin g.obj.allowed_users
         THEN Raise(g.st, "GetNotPermittedError")
         ELSE Return(de_register_obj(g.st, self, g.obj), RetObj(g.obj))

\* get_worker on the heaps: [st, ret, err]; dest is RetWorker(w) or RetId(x)
get_worker(st, self, dest, fail_hard) ==
    IF dest.t = "worker"
    THEN Return([st EXCEPT !.kw = _get_worker(@, self, dest.v)], dest)
    ELSE LET registry == st.kw[kwRef[self]] IN
         IF dest.v = wid[self] THEN Return(st, RetWorker(self))
         ELSE IF dest.v \in DOMAIN registry THEN Return(st, RetWorker(registry[dest.v]))
         ELSE IF fail_hard THEN Raise(st, "WorkerNotFoundException")
         ELSE Return(st, dest)

RECURSIVE recv_msg(_, _, _)

\* sy.serde.deserialize(bin_response, worker=self): every object the response
\* holds is rebuilt at self
deserialize_response(ret, self) ==
    CASE ret.t = "obj" -> RetObj(deserialize(ret.v, self))
      [] ret.t = "copy" -> [ret EXCEPT !.v = deserialize(ret.v, self)]
      [] ret.t = "values" ->
            [ret EXCEPT !.v = [j \in 1..Len(ret.v) |-> deserialize(ret.v[j], self)]]
      [] ret.t = "list" -> [ret EXCEPT !.v = {deserialize(o, self) : o \in ret.v}]
      [] OTHER -> ret

\* a send_msg that returns normally whatever the handler raised
send_msg_response_swallowing(self, r) ==
    IF r.err = "none" THEN [r EXCEPT !.ret = deserialize_response(r.ret, self)]
    ELSE Return(r.st, RetNone)

\* send_msg, step 3: an object in the response is rebuilt at self
send_msg_response(self, r) ==
    IF r.err = "none" THEN [r EXCEPT !.ret = deserialize_response(r.ret, self)]
    ELSE r

\* send_msg: the message is handed to the transport, which runs recv_msg of the
\* worker at location and brings its answer back.  A location that is a raw id
\* is no worker to call.
send_msg(st, self, msg, location) ==
    IF location.t # "worker" THEN Raise(st, "AttributeError")
    ELSE send_msg_response(self, recv_msg(st, location.v, msg))

\* obj.create_pointer(owner, location, id_at_location, register=True, ptr_id)
Pointer(ptr_id, owner, location, id_at_location, tags, gc) ==
    [kind |-> "pointer", id |-> ptr_id, val |-> 0, tags |-> tags, private |-> FALSE,
     has_allow |-> FALSE, allowed_users |-> {}, gc |-> gc, owner |-> owner,
     origin |-> <<>>, location |-> location, id_at_location |-> id_at_location]

\* hasattr(obj, "create_pointer") and not isinstance(obj, sy.Protocol)
PointerAble(obj) == obj.kind \in {"tensor", "plan", "pointer"}

\* the object the caller handed to send is the one stored on self
IsStored(st, self, obj) ==
    /\ obj.kind # "none"
    /\ obj.id \in DOMAIN st.os[osRef[self]]
    /\ st.os[osRef[self]][obj.id] = obj

\* a send that gives every pointer an id of its own, whatever ptr_id is
send_pointer_own_id(sm, self, obj, location, ptr_id, requires_grad, create_pointer, stored) ==
    LET cleared == IF requires_grad THEN [obj EXCEPT !.origin = <<>>] ELSE obj
        p == IdPop(sm.st.idp)
        pointer == Pointer(p.id, self, location.v, obj.id, {}, "collect")
    IN  IF sm.err # "none" THEN Raise(sm.st, sm.err)
        ELSE IF ~create_pointer THEN Return(sm.st, RetNone)
        ELSE IF PointerAble(obj)
        THEN Return(worker_register_obj([sm.st EXCEPT !.idp = p.idp], self, pointer, 0),
                    RetObj(pointer))
        ELSE Return(sm.st, RetObj(cleared))

\* send, after send_obj has returned sm: the origin attributes are cleared on
\* the caller's object (the stored one unless the message replaced that
\* entry), then the pointer is built and registered
send_pointer(sm, self, obj, location, ptr_id, requires_grad, create_pointer, stored) ==
    LET tagged == IF requires_grad THEN [obj EXCEPT !.origin = <<wid[self], obj.id>>] ELSE obj
        cleared == IF requires_grad THEN [obj EXCEPT !.origin = <<>>] ELSE obj
        st2 == IF stored /\ IsStored(sm.st, self, tagged)
               THEN set_obj(sm.st, self, cleared) ELSE sm.st
    IN  IF sm.err # "none" THEN Raise(sm.st, sm.err)
        ELSE IF ~create_pointer THEN Return(st2, RetNone)
        ELSE IF PointerAble(obj)
        THEN LET p == IF ptr_id = 0 THEN IdPop(st2.idp) ELSE [id |-> ptr_id, idp |-> st2.idp]
                 pointer == Pointer(p.id, self, location.v, obj.id, {}, "collect")
                 st3 == [st2 EXCEPT !.idp = p.idp]
             IN  Return(worker_register_obj(st3, self, pointer, 0), RetObj(pointer))
        ELSE Return(st2, RetObj(cleared))

\* a send that takes the first of several destinations
send_prepare_first_only(st, self, obj, workers, requires_grad) ==
    LET gw == get_worker(st, self, workers[1], FALSE)
        stored == IsStored(st, self, obj)
        tagged == IF requires_grad THEN [obj EXCEPT !.origin = <<wid[self], obj.id>>] ELSE obj
    IN  IF Len(workers) = 0
        THEN [err |-> "AssertionError", st |-> st, obj |-> obj, location |-> RetNone,
              stored |-> stored]
        ELSE [err |-> "none", st |-> IF stored THEN set_obj(gw.st, self, tagged) ELSE gw.st,
              obj |-> tagged, location |-> gw.ret, stored |-> stored]

\* send, up to send_obj: [err, st, obj, location, stored].  The destination is
\* resolved and, with requires_grad, the object is given its origin (obj.origin
\* = self.id; obj.id_at_origin = obj.id); obj is the object to put in the
\* ObjectMessage for location
send_prepare(st, self, obj, workers, requires_grad) ==
    LET gw == get_worker(st, self, workers[1], FALSE)
        stored == IsStored(st, self, obj)
        tagged == IF requires_grad THEN [obj EXCEPT !.origin = <<wid[self], obj.id>>] ELSE obj
        failed(e, s1) == [err |-> e, st |-> s1, obj |-> obj, location |-> RetNone,
                          stored |-> stored]
    IN  IF Len(workers) = 0 THEN failed("AssertionError", st)
        ELSE IF Len(workers) > 1 THEN failed("NotImplementedError", st)
        ELSE IF requires_grad /\ obj.kind = "none" THEN failed("AttributeError", gw.st)
        ELSE [err |-> "none", st |-> IF stored THEN set_obj(gw.st, self, tagged) ELSE gw.st,
              obj |-> tagged, location |-> gw.ret, stored |-> stored]

\* send: [st, ret, err].  workers is the tuple of destinations, ptr_id 0 is None.
send(st, self, obj, workers, ptr_id, requires_grad, create_pointer) ==
    LET p == send_prepare(st, self, obj, workers, requires_grad) IN
    IF p.err # "none" THEN Raise(p.st, p.err)
    ELSE send_pointer(send_msg(p.st, self, ObjectMessage(p.obj), p.location), self, obj,
                      p.location, ptr_id, requires_grad, create_pointer, p.stored)

\* a destination used where an id is expected (send(obj, d1, d2) binds d2 to
\* ptr_id): a raw id is itself, a worker object is a key no object id equals
AsKey(dest) == IF dest.t = "worker" THEN 0 - dest.v ELSE dest.v

\* hook_args.register_response("send", response, [new_id], self): the response
\* is re-registered on self under the new id
register_send_response(st, self, response, new_id) ==
    LET moved == [response EXCEPT !.id = new_id] IN
    [st |-> worker_register_obj(de_register_obj(st, self, response), self, moved, 0),
     obj |-> moved]

\* execute_communication_action, up to the send: [err, st, obj, workers,
\* ptr_id]; the destinations are resolved and the target is fetched, and in
\* owner.send(obj, *destinations, **kwargs_) the first destination is workers
\* and the second one ptr_id
communication_prepare(st, self, msg) ==
    LET destinations == [n \in 1..Len(msg.args) |->
                            get_worker(st, self, RetId(msg.args[n]), FALSE).ret]
        g == get_obj(st, self, msg.target_id)
        arity == Len(destinations) = 0 \/ Len(destinations) > 3
    IN  [err |-> IF g.err # "none" THEN g.err ELSE IF arity THEN "TypeError" ELSE "none",
         st |-> g.st, obj |-> g.obj,
         workers |-> IF arity THEN <<>> ELSE <<destinations[1]>>,
         ptr_id |-> IF Len(destinations) >= 2 THEN AsKey(destinations[2]) ELSE 0]

communication_send(st, self, msg) ==
    LET c == communication_prepare(st, self, msg) IN
    IF c.err # "none" THEN Raise(c.st, c.err)
    ELSE send(c.st, self, c.obj, c.workers, c.ptr_id, msg.requires_grad, TRUE)

\* a communication action that leaves the pointer's toggle as send made it
mark_response_unmarked(st, self, obj) == [st |-> st, obj |-> obj]

\* response.garbage_collect_data = False, on the object send returned
mark_response(st, self, obj) ==
    LET response == IF obj.kind = "pointer" THEN [obj EXCEPT !.gc = "keep"] ELSE obj IN
    [st |-> IF IsStored(st, self, obj) THEN set_obj(st, self, response) ELSE st,
     obj |-> response]

\* a communication action that never removes the relocated object
communication_response_keeping(s, self, msg) ==
    IF s.err # "none" THEN Raise(s.st, s.err)
    ELSE LET m == mark_response(s.st, self, s.ret.v) IN Return(m.st, RetObj(m.obj))

\* execute_communication_action, after the send has returned s
communication_response(s, self, msg) ==
    IF s.err # "none" THEN Raise(s.st, s.err)
    ELSE LET m == mark_response(s.st, self, s.ret.v) IN
         IF msg.requires_grad
         THEN LET p == IdPop(m.st.idp)
                  reg == register_send_response([m.st EXCEPT !.idp = p.idp], self,
                                                m.obj, p.id)
              IN  Return(reg.st, RetObj(reg.obj))
         ELSE Return(rm_obj(m.st, self, msg.target_id), RetObj(m.obj))

\* execute_communication_action
execute_communication_action(st, self, msg) ==
    IF msg.target_owner # self THEN Return(st, RetNone)
    ELSE communication_response(communication_send(st, self, msg), self, msg)

\* ------------------------------------------------------ computation actions
\* TensorCommandMessage.computation(cmd_name, target, args_, kwargs_, return_ids,
\* return_value).  target: [t |-> "function" | "forbidden" | "id" | "self" |
\* "tag", ...]; outcome: what calling the operation does, [kind |-> "inplace" |
\* "none" | "scalar" | "values", k |-> the number of values it yields]
ComputationMessage(target, outcome, return_ids, return_value) ==
    [type |-> "TensorCommandMessage", action |-> "computation", target |-> target,
     outcome |-> outcome, return_ids |-> return_ids, return_value |-> return_value]

FunctionTarget == [t |-> "function", id |-> 0, tag |-> ""]
ForbiddenTarget == [t |-> "forbidden", id |-> 0, tag |-> ""]
SelfTarget == [t |-> "self", id |-> 0, tag |-> ""]
IdTarget(id) == [t |-> "id", id |-> id, tag |-> ""]
TagTarget(tag) == [t |-> "tag", id |-> 0, tag |-> tag]

\* the values an operation yields: new tensors that have no id yet, the j-th
\* told apart by its payload -j
Response(k, owner) == [j \in 1..k |-> Tensor(0, 0 - j, {}, owner)]

\* the values of a response take ids popped from the provider, one after the
\* other, and are registered on self: [st, objs]
RECURSIVE bind_from_provider(_, _, _)
bind_from_provider(st, self, response) ==
    IF response = <<>> THEN [st |-> st, objs |-> <<>>]
    ELSE LET p == IdPop(st.idp)
             bound == [Head(response) EXCEPT !.id = p.id, !.owner = self]
             st1 == worker_register_obj([st EXCEPT !.idp = p.idp], self, bound, 0)
             rest == bind_from_provider(st1, self, Tail(response))
         IN  [st |-> rest.st, objs |-> <<bound>> \o rest.objs]

\* the values of a response take the ids of a list, popped from its end
RECURSIVE bind_from_list(_, _, _, _)
bind_from_list(st, self, response, ids) ==
    IF response = <<>> THEN [st |-> st, objs |-> <<>>]
    ELSE LET bound == [Head(response) EXCEPT !.id = ids[Len(ids)], !.owner = self]
             st1 == worker_register_obj(st, self, bound, 0)
             rest == bind_from_list(st1, self, Tail(response), SubSeq(ids, 1, Len(ids) - 1))
         IN  [st |-> rest.st, objs |-> <<bound>> \o rest.objs]

\* hook_args.register_response(op_name, response, list(return_ids), self): the
\* values are bound to exactly len(return_ids) ids; a response of another arity
\* is not bound at all
register_response(st, self, response, return_ids) ==
    IF Len(response) # Len(return_ids) THEN Raise(st, "ResponseSignatureError")
    ELSE LET b == bind_from_list(st, self, response, return_ids) IN
         Return(b.st, [t |-> "values", v |-> b.objs])

\* a renegotiation that carries the requested ids instead of the recorded ones
renegotiate_requested_ids(st, self, response, return_ids) ==
    LET idp1 == start_recording_ids(set_next_ids(st.idp, return_ids))
        b == bind_from_provider([st EXCEPT !.idp = idp1], self, response)
        rec == get_recorded_ids(b.st.idp)
    IN  [st |-> [b.st EXCEPT !.idp = rec.idp],
         ret |-> [t |-> "ids", v |-> return_ids], err |-> "ResponseSignatureError"]

\* a renegotiation that does not queue the requested ids
renegotiate_unprimed(st, self, response, return_ids) ==
    LET idp1 == start_recording_ids(st.idp)
        b == bind_from_provider([st EXCEPT !.idp = idp1], self, response)
        rec == get_recorded_ids(b.st.idp)
    IN  [st |-> [b.st EXCEPT !.idp = rec.idp],
         ret |-> [t |-> "ids", v |-> rec.ids], err |-> "ResponseSignatureError"]

\* execute_computation_action, except ResponseSignatureError: the provider is
\* primed with return_ids and records the ids it hands out while the response
\* is registered again; the condition raised carries the recorded ids
renegotiate(st, self, response, return_ids) ==
    LET idp1 == start_recording_ids(set_next_ids(st.idp, return_ids))
        b == bind_from_provider([st EXCEPT !.idp = idp1], self, response)
        rec == get_recorded_ids(b.st.idp)
    IN  [st |-> [b.st EXCEPT !.idp = rec.idp],
         ret |-> [t |-> "ids", v |-> rec.ids], err |-> "ResponseSignatureError"]

\* a handler that returns the registered values whatever return_value says
computation_response_raw(st, self, msg) ==
    IF msg.outcome.kind = "none" THEN Return(st, RetNone)
    ELSE IF msg.outcome.kind = "scalar" THEN Return(st, [t |-> "scalar", v |-> 0])
    ELSE LET response == Response(msg.outcome.k, self)
             reg == register_response(st, self, response, msg.return_ids)
         IN  IF reg.err = "ResponseSignatureError"
             THEN renegotiate(st, self, response, msg.return_ids)
             ELSE reg

\* execute_computation_action, once the operation has been called on a resolved
\* target (an in-place operation reached as a function yields its k values like
\* any other)
computation_response(st, self, msg) ==
    IF msg.outcome.kind = "none" THEN Return(st, RetNone)
    ELSE IF msg.outcome.kind = "scalar" THEN Return(st, [t |-> "scalar", v |-> 0])
    ELSE LET response == Response(msg.outcome.k, self)
             reg == register_response(st, self, response, msg.return_ids)
         IN  IF reg.err = "ResponseSignatureError"
             THEN renegotiate(st, self, response, msg.return_ids)
             ELSE IF msg.return_value THEN reg ELSE Return(reg.st, RetNone)

\* what an operation is invoked on: a stored object, the worker, or nothing
\* (a function)
OnObject(id) == [t |-> "obj", id |-> id]
OnWorker(self) == [t |-> "worker", id |-> self]
OnFunction == [t |-> "function", id |-> 0]

\* a target resolution that goes on when get_obj has returned None
resolve_target_unchecked(st, self, msg) ==
    LET target == msg.target
        kept == msg.outcome.kind # "inplace"
    IN
    CASE target.t = "id" ->
            LET g == get_obj(st, self, target.id) IN
            [st |-> g.st, err |-> g.err, called |-> g.err = "none" /\ kept,
             found |-> g.err = "none", on |-> OnObject(target.id)]
      [] target.t = "self" ->
            [st |-> st, err |-> "none", called |-> kept, found |-> TRUE,
             on |-> OnWorker(self)]
      [] target.t = "tag" ->
            LET res == search(st, self, <<TagTerm(target.tag)>>) IN
            IF Cardinality(res.ret.v) # 1
            THEN [st |-> st, err |-> "AssertionError", called |-> FALSE, found |-> FALSE,
                  on |-> OnFunction]
            ELSE [st |-> st, err |-> "none", called |-> kept, found |-> TRUE,
                  on |-> OnObject((CHOOSE o \in res.ret.v : TRUE).id)]
      [] target.t = "forbidden" ->
            [st |-> st, err |-> "RuntimeError", called |-> FALSE, found |-> FALSE,
             on |-> OnFunction]
      [] target.t = "function" ->
            [st |-> st, err |-> "none", called |-> TRUE, found |-> TRUE, on |-> OnFunction]

\* a target resolution that takes one of several objects the search returns
resolve_target_first_match(st, self, msg) ==
    LET target == msg.target
        kept == msg.outcome.kind # "inplace"
    IN
    CASE target.t = "id" ->
            LET g == get_obj(st, self, target.id) IN
            [st |-> g.st, err |-> g.err,
             called |-> g.err = "none" /\ g.obj.kind # "none" /\ kept,
             found |-> g.err = "none" /\ g.obj.kind # "none", on |-> OnObject(target.id)]
      [] target.t = "self" ->
            [st |-> st, err |-> "none", called |-> kept, found |-> TRUE,
             on |-> OnWorker(self)]
      [] target.t = "tag" ->
            LET res == search(st, self, <<TagTerm(target.tag)>>) IN
            IF Cardinality(res.ret.v) = 0
            THEN [st |-> st, err |-> "AssertionError", called |-> FALSE, found |-> FALSE,
                  on |-> OnFunction]
            ELSE [st |-> st, err |-> "none", called |-> kept, found |-> TRUE,
                  on |-> OnObject((CHOOSE o \in res.ret.v : TRUE).id)]
      [] target.t = "forbidden" ->
            [st |-> st, err |-> "RuntimeError", called |-> FALSE, found |-> FALSE,
             on |-> OnFunction]
      [] target.t = "function" ->
            [st |-> st, err |-> "none", called |-> TRUE, found |-> TRUE, on |-> OnFunction]

\* execute_computation_action, the target: [st, err, called, found, on]; found
\* says that there is something to invoke the operation on (on), called that
\* the operation runs and its response is kept (no in-place method)
resolve_target(st, self, msg) ==
    LET target == msg.target
        kept == msg.outcome.kind # "inplace"
    IN
    CASE target.t = "id" ->
            LET g == get_obj(st, self, target.id) IN
            [st |-> g.st, err |-> g.err,
             called |-> g.err = "none" /\ g.obj.kind # "none" /\ kept,
             found |-> g.err = "none" /\ g.obj.kind # "none", on |-> OnObject(target.id)]
      [] target.t = "self" ->
            [st |-> st, err |-> "none", called |-> kept, found |-> TRUE,
             on |-> OnWorker(self)]
      [] target.t = "tag" ->
            LET res == search(st, self, <<TagTerm(target.tag)>>) IN
            IF Cardinality(res.ret.v) # 1
            THEN [st |-> st, err |-> "AssertionError", called |-> FALSE, found |-> FALSE,
                  on |-> OnFunction]
            ELSE [st |-> st, err |-> "none", called |-> kept, found |-> TRUE,
                  on |-> OnObject((CHOOSE o \in res.ret.v : TRUE).id)]
      [] target.t = "forbidden" ->
            [st |-> st, err |-> "RuntimeError", called |-> FALSE, found |-> FALSE,
             on |-> OnFunction]
      [] target.t = "function" ->
            [st |-> st, err |-> "none", called |-> TRUE, found |-> TRUE, on |-> OnFunction]

\* getattr(_self, op_name)(*args_, **kwargs_), or command(*args_, **kwargs_):
\* the operation is invoked on on, once for each entry of attempts, which says
\* what the invocation raises ("none": it returns)
invoke(st, on, attempts) ==
    [st EXCEPT !.calls = @ \o [j \in 1..Len(attempts) |->
                                 [t |-> on.t, id |-> on.id, raised |-> attempts[j]]]]

\* invocations that give up on TypeError as on any other error
attempts_no_retry(msg, method) ==
    LET kind == msg.outcome.kind IN
    IF kind = "error" THEN <<"RuntimeError">>
    ELSE IF kind \in {"type_error", "decoded"} THEN <<"TypeError">>
    ELSE <<"none">>

\* execute_computation_action, the invocations of the operation.  The outcome
\* kinds "error", "type_error" and "decoded" are operations that raise:
\* RuntimeError; TypeError at every invocation; TypeError at the first
\* invocation only.  A method that is not in place and raises TypeError is
\* invoked once more, with its bytes arguments decoded; a function is not.
attempts(msg, method) ==
    LET kind == msg.outcome.kind IN
    IF kind = "error" THEN <<"RuntimeError">>
    ELSE IF kind = "type_error"
    THEN IF method THEN <<"TypeError", "TypeError">> ELSE <<"TypeError">>
    ELSE IF kind = "decoded"
    THEN IF method THEN <<"TypeError", "none">> ELSE <<"TypeError">>
    ELSE <<"none">>

\* execute_computation_action, after the last invocation, which raised raised:
\* an error leaves the handler, an in-place method returns nothing, any other
\* operation has its response registered
operation_response(st, self, msg, method, raised) ==
    IF raised # "none" THEN Raise(st, raised)
    ELSE IF method /\ msg.outcome.kind = "inplace" THEN Return(st, RetNone)
    ELSE computation_response(st, self, msg)

\* execute_computation_action, from the resolved target on
operation(st, self, msg, on, method) ==
    operation_response(invoke(st, on, attempts(msg, method)), self, msg, method,
                       attempts(msg, method)[Len(attempts(msg, method))])

\* execute_computation_action, once the target is resolved as t: an error
\* leaves the handler, a target that get_obj answered None for ends it, and the
\* operation is invoked otherwise
operation_on(t, self, msg) ==
    IF t.err # "none" THEN Raise(t.st, t.err)
    ELSE IF ~t.found THEN Return(t.st, RetNone)
    ELSE operation(t.st, self, msg, t.on, msg.target.t # "function")

\* execute_computation_action
execute_computation_action(st, self, msg) ==
    operation_on(resolve_target(st, self, msg), self, msg)

\* execute_tensor_command
execute_tensor_command(st, self, msg) ==
    IF msg.action = "computation"
    THEN execute_computation_action(st, self, msg)
    ELSE execute_communication_action(st, self, msg)

\* send_command, after send_msg has returned r: on ResponseSignatureError the
\* ids the condition carries replace return_ids; without a returned value one
\* pointer per return id is built
RECURSIVE command_pointers(_, _, _, _)
command_pointers(idp, self, recipient, return_ids) ==
    IF return_ids = <<>> THEN [idp |-> idp, ptrs |-> <<>>]
    ELSE LET p == IdPop(idp)
             ptr == Pointer(p.id, self, recipient, Head(return_ids), {}, "collect")
             rest == command_pointers(p.idp, self, recipient, Tail(return_ids))
         IN  [idp |-> rest.idp, ptrs |-> <<ptr>> \o rest.ptrs]

\* a send_command that keeps its requested ids after a ResponseSignatureError
command_responses_requested_ids(r, self, recipient, return_ids) ==
    IF r.err \notin {"none", "ResponseSignatureError"} THEN r
    ELSE IF r.err = "none" /\ r.ret.t # "none" THEN r
    ELSE LET c == command_pointers(r.st.idp, self, recipient, return_ids)
             st1 == [r.st EXCEPT !.idp = c.idp]
         IN  IF Len(return_ids) = 1 THEN Return(st1, RetObj(c.ptrs[1]))
             ELSE Return(st1, [t |-> "pointers", v |-> c.ptrs])

command_responses(r, self, recipient, return_ids) ==
    IF r.err \notin {"none", "ResponseSignatureError"} THEN r
    ELSE IF r.err = "none" /\ r.ret.t # "none" THEN r
    ELSE LET ids == IF r.err = "ResponseSignatureError" THEN r.ret.v ELSE return_ids
             c == command_pointers(r.st.idp, self, recipient, ids)
             st1 == [r.st EXCEPT !.idp = c.idp]
         IN  IF Len(ids) = 1 THEN Return(st1, RetObj(c.ptrs[1]))
             ELSE Return(st1, [t |-> "pointers", v |-> c.ptrs])

\* send_command, return_ids: <<0>> stands for None, and one id is popped for it
command_return_ids(st, return_ids) ==
    LET p == IdPop(st.idp) IN
    IF return_ids = <<0>> THEN [st |-> [st EXCEPT !.idp = p.idp], ids |-> <<p.id>>]
    ELSE [st |-> st, ids |-> return_ids]

\* send_command
send_command(st, self, recipient, target, outcome, return_ids, return_value) ==
    LET c == command_return_ids(st, return_ids)
        message == ComputationMessage(target, outcome, c.ids, return_value)
    IN  command_responses(send_msg(c.st, self, message, RetWorker(recipient)),
                          self, recipient, c.ids)

\* WorkerCommandMessage(command_name, (args_, kwargs_, return_ids)) for the
\* command send_msg(message, location); return_id is return_ids[0], 0 when
\* return_ids is empty
WorkerCommandMessage(message, location, return_id) ==
    [type |-> "WorkerCommandMessage", command_name |-> "send_msg", message |-> message,
     location |-> location, return_id |-> return_id]

\* an execute_worker_command that answers None for a tensor and registers
\* nothing
worker_command_response_unregistered(r, self, msg) ==
    IF r.err # "none" THEN r
    ELSE IF r.ret.t = "obj" /\ r.ret.v.kind = "tensor"
    THEN IF msg.return_id = 0 THEN Raise(r.st, "IndexError")
         ELSE Return(r.st, RetNone)
    ELSE r

\* execute_worker_command, after the command has returned r: a tensor is
\* registered under return_ids[0] and None is answered
worker_command_response(r, self, msg) ==
    IF r.err # "none" THEN r
    ELSE IF r.ret.t = "obj" /\ r.ret.v.kind = "tensor"
    THEN IF msg.return_id = 0 THEN Raise(r.st, "IndexError")
         ELSE Return(worker_register_obj(r.st, self, r.ret.v, msg.return_id), RetNone)
    ELSE r

\* execute_worker_command
execute_worker_command(st, self, msg) ==
    worker_command_response(send_msg(st, self, msg.message, msg.location), self, msg)

\* ------------------------------------------------- the remaining handlers
PlanCommandMessage(command_name, plan_id, copy) ==
    [type |-> "PlanCommandMessage", command_name |-> command_name, plan_id |-> plan_id,
     copy |-> copy]
SearchMessage(query) == [type |-> "SearchMessage", query |-> query]
IsNoneMessage(object_id) == [type |-> "IsNoneMessage", object_id |-> object_id]
GetShapeMessage(tensor_id) == [type |-> "GetShapeMessage", tensor_id |-> tensor_id]
ForceObjectDeleteMessage(object_id) ==
    [type |-> "ForceObjectDeleteMessage", object_id |-> object_id]

\* candidate.copy(): another instance with the contents of the stored one
RetCopy(o) == [t |-> "copy", v |-> o]
RetBool(b) == [t |-> "bool", v |-> b]

\* _fetch_plan_remote
_fetch_plan_remote(st, self, plan_id, copy) ==
    IF plan_id \in DOMAIN st.os[osRef[self]] /\ st.os[osRef[self]][plan_id].kind = "plan"
    THEN Return(st, IF copy THEN RetCopy(st.os[osRef[self]][plan_id])
                    ELSE RetObj(st.os[osRef[self]][plan_id]))
    ELSE Return(st, RetNone)

\* _fetch_protocol_remote: copy is not looked at
_fetch_protocol_remote(st, self, protocol_id, copy) ==
    IF protocol_id \in DOMAIN st.os[osRef[self]]
       /\ st.os[osRef[self]][protocol_id].kind = "protocol"
    THEN Return(st, RetObj(st.os[osRef[self]][protocol_id]))
    ELSE Return(st, RetNone)

\* execute_plan_command: the command is looked up in _plan_command_router
execute_plan_command(st, self, msg) ==
    CASE msg.command_name = "fetch_plan" ->
            _fetch_plan_remote(st, self, msg.plan_id, msg.copy)
      [] msg.command_name = "fetch_protocol" ->
            _fetch_protocol_remote(st, self, msg.plan_id, msg.copy)
      [] OTHER -> Raise(st, "PlanCommandUnknownError")

\* an is_object_none for which an entry that get_obj does not hand out is no
\* entry
is_object_none_raising(st, self, msg) ==
    IF msg.object_id \notin DOMAIN st.os[osRef[self]]
    THEN Raise(st, "ObjectNotFoundError")
    ELSE LET g == get_obj(st, self, msg.object_id) IN
         IF g.obj.kind = "none" THEN Raise(g.st, "ObjectNotFoundError")
         ELSE Return(g.st, RetBool(FALSE))

\* is_object_none
is_object_none(st, self, msg) ==
    IF msg.object_id \notin DOMAIN st.os[osRef[self]]
    THEN Raise(st, "ObjectNotFoundError")
    ELSE LET g == get_obj(st, self, msg.object_id) IN
         Return(g.st, RetBool(g.obj.kind = "none"))

\* tensor.shape as a list: what the payload of a tensor determines; objects
\* other than tensors have no shape
Shape(o) == <<o.val>>

\* handle_get_shape_message
handle_get_shape_message(st, self, msg) ==
    LET g == get_obj(st, self, msg.tensor_id) IN
    IF g.err # "none" THEN Raise(g.st, g.err)
    ELSE IF g.obj.kind # "tensor" THEN Raise(g.st, "AttributeError")
    ELSE Return(g.st, [t |-> "shape", v |-> Shape(g.obj)])

\* ObjectStore.force_rm_obj: the entry is dropped when there is one
force_rm_obj(st, self, obj_id) == [st EXCEPT !.os[osRef[self]] = Del(@, obj_id)]

\* handle_delete_object_msg (the router entry it is written for is replaced)
handle_delete_object_msg(st, self, msg) == Return(rm_obj(st, self, msg.object_id), RetNone)

\* handle_force_delete_object_msg
handle_force_delete_object_msg(st, self, msg) ==
    Return(force_rm_obj(st, self, msg.object_id), RetNone)

\* the loop of respond_to_search: one pointer per found object, in the order
\* of the object ids, each with an id of its own, without garbage collection
\* of the data, owned by sy.local_worker and carrying the object's tags
RECURSIVE search_pointers(_, _)
search_pointers(idp, objects) ==
    IF objects = {} THEN [idp |-> idp, ptrs |-> {}]
    ELSE LET obj == CHOOSE o \in objects : \A x \in objects : o.id <= x.id
             p == IdPop(idp)
             rest == search_pointers(p.idp, objects \ {obj})
         IN  [idp |-> rest.idp,
              ptrs |-> {Pointer(p.id, local_worker, obj.owner, obj.id, obj.tags, "keep")}
                          \cup rest.ptrs]

\* respond_to_search
respond_to_search(st, self, msg) ==
    LET found == search(st, self, msg.query) IN
    IF \E o \in found.ret.v : o.kind = "none" THEN Raise(found.st, "AttributeError")
    ELSE LET made == search_pointers(found.st.idp, found.ret.v) IN
         Return([found.st EXCEPT !.idp = made.idp], [t |-> "list", v |-> made.ptrs])

\* a recv_msg that puts the message in front of msg_history
log_message_in_front(st, self, msg) ==
    IF log_msgs[self] THEN [st EXCEPT !.mh[mhRef[self]] = <<msg>> \o @] ELSE st

\* recv_msg, step 1: the message is appended to msg_history when logging is on
log_message(st, self, msg) ==
    IF log_msgs[self] THEN [st EXCEPT !.mh[mhRef[self]] = Append(@, msg)] ELSE st

\* recv_msg, step 2: self._message_router[type(msg)](msg)
route(st, self, msg) ==
    LET h == _message_router[self][msg.type] IN
    CASE h.handler = "handle_object_msg" -> handle_object_msg(st, h.self, msg)
      [] h.handler = "respond_to_obj_req" -> respond_to_obj_req(st, h.self, msg)
      [] h.handler = "execute_tensor_command" -> execute_tensor_command(st, h.self, msg)
      [] h.handler = "execute_worker_command" -> execute_worker_command(st, h.self, msg)
      [] h.handler = "execute_plan_command" -> execute_plan_command(st, h.self, msg)
      [] h.handler = "respond_to_search" -> respond_to_search(st, h.self, msg)
      [] h.handler = "is_object_none" -> is_object_none(st, h.self, msg)
      [] h.handler = "handle_get_shape_message" -> handle_get_shape_message(st, h.self, msg)
      [] h.handler = "handle_delete_object_msg" -> handle_delete_object_msg(st, h.self, msg)
      [] h.handler = "handle_force_delete_object_msg" ->
            handle_force_delete_object_msg(st, h.self, msg)

\* recv_msg
recv_msg(st, self, msg) == route(log_message(st, self, msg), self, msg)

\* request_obj
request_obj(st, self, obj_id, location, user) ==
    send_msg(st, self, ObjectRequestMessage(obj_id, user), RetWorker(location))

\* the loop of request_search: every result is registered on self
RECURSIVE register_results(_, _, _)
register_results(st, self, results) ==
    IF results = {} THEN st
    ELSE LET result == CHOOSE o \in results : \A x \in results : o.id <= x.id
         IN  register_results(worker_register_obj(st, self, result, 0), self,
                              results \ {result})

\* request_search, after send_msg has returned r: every result is registered
request_search_response(r, self) ==
    IF r.err # "none" THEN r
    ELSE Return(register_results(r.st, self, r.ret.v), r.ret)

\* request_search
request_search(st, self, query, location) ==
    request_search_response(send_msg(st, self, SearchMessage(query), RetWorker(location)),
                            self)

\* a find_or_request that asks the location whatever the local store holds
find_or_request_remote_only(st, self, tag, location) ==
    request_search(st, self, <<TagTerm(tag)>>, location)

\* find_or_request: the local entries that carry the tag are returned when
\* there are some; the assertion reads result.location.id of each of them (the
\* one with the smallest id that fails it decides how), which an object that
\* is no pointer does not have
find_or_request(st, self, tag, location) ==
    LET results == find_by_tag(st, self, TagTerm(tag))
        entry(i) == st.os[osRef[self]][i]
        bad == {i \in results :
                   entry(i).kind # "pointer" \/ wid[entry(i).location] # wid[location]}
        first == CHOOSE i \in bad : \A j \in bad : i <= j
    IN  IF results = {} THEN request_search(st, self, <<TagTerm(tag)>>, location)
        ELSE IF bad = {} THEN Return(st, [t |-> "list", v |-> {entry(i) : i \in results}])
        ELSE IF entry(first).kind # "pointer" THEN Raise(st, "AttributeError")
        ELSE Raise(st, "AssertionError")

\* ------------------------------------------------- specification: the stores
NumWorkers == 2   \* workers of the store specification
NumObjs == 1      \* objects registered at the start
MaxFresh == 1     \* ids the id provider may draw
MaxOps == 2       \* operations in one behaviour

StoreWorkers == 1..NumWorkers
ObjIds == 1..NumObjs
\* the id of a tensor a caller holds without having registered it
ExternalId == NumObjs + 1
FirstFreshId == NumObjs + 2

Commit(r) ==
    /\ _objects' = r.st.os
    /\ _known_workers' = r.st.kw
    /\ msg_history' = r.st.mh
    /\ ID_PROVIDER' = r.st.idp

CanDraw == ID_PROVIDER.next < FirstFreshId + MaxFresh

Step == nops < MaxOps /\ nops' = nops + 1

\* what a worker's caller can hand to send: an object of the worker's store, or
\* a tensor of its own that no store holds
Store(w) == _objects[osRef[w]]
ExternalTensor(w) == Tensor(ExternalId, ExternalId, {}, w)
Sendable(w) == {o \in Values(Store(w)) : o.kind # "pointer"} \cup {ExternalTensor(w)}

\* what an observer sees of an object: its kind, id, payload and tags
Observable(o) ==
    IF o.kind = "none" THEN [kind |-> "none"]
    ELSE [kind |-> o.kind, id |-> o.id, val |-> o.val, tags |-> o.tags]

Send(self, obj, workers, ptr_id, requires_grad, create_pointer) ==
    LET r == send(Heaps, self, obj, workers, ptr_id, requires_grad, create_pointer) IN
    /\ CanDraw
    /\ Step
    /\ Commit(r)
    /\ last' = [op |-> "send", self |-> self, obj |-> Observable(obj),
                stored |-> IsStored(Heaps, self, obj), private |-> obj.private,
                has_allow |-> obj.has_allow, allowed_users |-> obj.allowed_users,
                pointer_able |-> PointerAble(obj), workers |-> workers, ptr_id |-> ptr_id,
                requires_grad |-> requires_grad, create_pointer |-> create_pointer,
                next |-> ID_PROVIDER.next, ret |-> r.ret, err |-> r.err]
    /\ UNCHANGED <<workerVars, local_worker, stack>>

RequestObj(self, obj_id, location, user) ==
    LET r == request_obj(Heaps, self, obj_id, location, user) IN
    /\ Step
    /\ Commit(r)
    /\ last' = [op |-> "request_obj", self |-> self, location |-> location,
                obj_id |-> obj_id, user |-> user, ret |-> r.ret, err |-> r.err]
    /\ UNCHANGED <<workerVars, local_worker, stack>>

\* the local worker sends a TensorCommandMessage with a CommunicationAction to
\* executor
RemoteSend(executor, target_id, target_owner, args, requires_grad) ==
    LET msg == CommunicationMessage(target_id, target_owner, args, requires_grad)
        r == send_msg(Heaps, local_worker, msg, RetWorker(executor))
    IN
    /\ CanDraw
    /\ Step
    /\ Commit(r)
    /\ last' = [op |-> "communication", self |-> executor, target_id |-> target_id,
                target_owner |-> target_owner, args |-> args,
                stored |-> target_id \in DOMAIN Store(executor),
                private |-> target_id \in DOMAIN Store(executor)
                               /\ Store(executor)[target_id].private,
                pointer_able |-> target_id \in DOMAIN Store(executor)
                                    /\ PointerAble(Store(executor)[target_id]),
                requires_grad |-> requires_grad, ret |-> r.ret, err |-> r.err]
    /\ UNCHANGED <<workerVars, local_worker, stack>>

\* the objects of the initial stores
Profiles(id, holder) ==
    LET t == Tensor(id, id, {}, holder) IN
    {t, [t EXCEPT !.private = TRUE],
        [t EXCEPT !.has_allow = TRUE, !.allowed_users = {"u1"}],
        [t EXCEPT !.has_allow = TRUE, !.allowed_users = {"u1"}, !.gc = "collect"],
        [t EXCEPT !.gc = "collect"],
        [t EXCEPT !.kind = "protocol"]}

\* Workers 1..NumWorkers with ids 0..NumWorkers-1, constructed with auto_add
\* against the local worker 1 (a client) and therefore known to one another
WorkersConstructed ==
    /\ alive = StoreWorkers
    /\ wid = [w \in StoreWorkers |-> w - 1]
    /\ wkind = [w \in StoreWorkers |-> "Base"]
    /\ is_client_worker = [w \in StoreWorkers |-> w = 1]
    /\ log_msgs = [w \in StoreWorkers |-> FALSE]
    /\ kwRef = [w \in StoreWorkers |-> w]
    /\ osRef = [w \in StoreWorkers |-> w]
    /\ mhRef = [w \in StoreWorkers |-> w]
    /\ _message_router = [w \in StoreWorkers |-> NewRouter(w)]
    /\ _known_workers = [w \in StoreWorkers |-> [x \in 0..(NumWorkers - 1) |-> x + 1]]
    /\ msg_history = [w \in StoreWorkers |-> <<>>]
    /\ local_worker = 1
    /\ stack = <<>>

\* every object is registered on exactly one worker
InitStore ==
    /\ WorkersConstructed
    /\ \E holder \in StoreWorkers :
       \E objs \in [ObjIds -> UNION {Profiles(i, holder) : i \in ObjIds}] :
          /\ \A i \in ObjIds : objs[i] \in Profiles(i, holder)
          /\ _objects = [w \in StoreWorkers |-> IF w = holder THEN objs ELSE EmptyDict]
    /\ ID_PROVIDER = NewIdProvider(FirstFreshId)
    /\ nops = 0
    /\ last = [op |-> "start"]

\* destinations: a worker handle, or an id (NumWorkers is the id of no worker)
DestIds == 0..NumWorkers
DestRefs == {RetWorker(w) : w \in StoreWorkers} \cup {RetId(NumWorkers)}
SendDests == {<<d>> : d \in DestRefs} \cup {<<RetWorker(1), RetWorker(2)>>}
DestIdLists == {<<>>} \cup {<<d>> : d \in DestIds} \cup {<<d, 0>> : d \in DestIds}

Next ==
    \/ \E self \in StoreWorkers, workers \in SendDests, ptr_id \in {0, 1},
          requires_grad \in BOOLEAN, create_pointer \in BOOLEAN :
          \E obj \in Sendable(self) :
             Send(self, obj, workers, ptr_id, requires_grad, create_pointer)
    \/ \E self \in StoreWorkers, location \in StoreWorkers,
          obj_id \in 1..ExternalId, user \in Users \cup {NoUser} :
          RequestObj(self, obj_id, location, user)
    \/ \E executor \in StoreWorkers, target_id \in 1..ExternalId,
          target_owner \in StoreWorkers, args \in DestIdLists, requires_grad \in BOOLEAN :
          RemoteSend(executor, target_id, target_owner, args, requires_grad)

Spec == InitStore /\ [][Next]_vars

\* ----------------------------------------------------- claims on the stores
\* the step is a request_obj by the sender of the send just made, through the
\* pointer that send returned for a stored, non-private object now on another
\* worker
RoundTripStep ==
    /\ last.op = "send" /\ last.err = "none"
    /\ last.stored /\ ~last.private
    /\ last.ret.t = "obj" /\ last.ret.v.kind = "pointer"
    /\ last.ret.v.location # last.self
    /\ last'.op = "request_obj"
    /\ last'.self = last.self
    /\ last'.location = last.ret.v.location
    /\ last'.obj_id = last.ret.v.id_at_location

RoundTripReturns ==
    /\ last'.err = "none"
    /\ last'.ret.t = "obj"
    /\ Observable(last'.ret.v) = last.obj

\* C1 as stated: sending a registered non-private object to another worker and
\* requesting it back through the returned pointer, with nothing in between,
\* returns the object.
C1_RoundTripAnyRequester == [][RoundTripStep => RoundTripReturns]_vars

\* C1 amended: the round trip returns the object when the object has no allow
\* capability or its allow capability admits the requesting user.
C1_RoundTripPermitted ==
    [][(RoundTripStep /\ (last.has_allow => last'.user \in last.allowed_users))
          => RoundTripReturns]_vars

\* a round trip has been made and has returned an object
C1_Witness ==
    /\ last.op = "request_obj" /\ last.err = "none"
    /\ last.ret.t = "obj" /\ last.ret.v.kind = "tensor"
    /\ last.self # last.location
    /\ nops = 2
    /\ \E p \in Values(Store(last.self)) :
          /\ p.kind = "pointer" /\ p.location = last.location
          /\ p.id_at_location = last.obj_id

\* the workers whose store holds the object of payload v
Holders(v) ==
    {osRef[w] : w \in {x \in alive : \E i \in DOMAIN Store(x) :
                                        Store(x)[i].kind # "pointer" /\ Store(x)[i].val = v}}

AtMostOneLocation == \A v \in 1..ExternalId : Cardinality(Holders(v)) <= 1

\* C2 as stated: whatever send, request_obj and communication actions have run,
\* no object is registered in the stores of two workers.
C2_AtMostOneLocation == AtMostOneLocation

\* C2 amended: a request_obj, and a communication action without requires_grad,
\* keep every object in at most one store.
C2_RelocationKeepsOneLocation ==
    [][(/\ AtMostOneLocation
        /\ \/ last'.op = "request_obj"
           \/ last'.op = "communication" /\ ~last'.requires_grad)
          => AtMostOneLocation']_vars

\* a communication action without requires_grad has moved its target from the
\* executing worker to another one
C2_Witness ==
    /\ last.op = "communication" /\ last.err = "none" /\ ~last.requires_grad
    /\ last.ret.t = "obj" /\ last.ret.v.kind = "pointer"
    /\ Holders(last.target_id) = {osRef[last.ret.v.location]}
    /\ last.ret.v.location # last.self

\* C16: send with two or more destinations raises NotImplementedError before
\* anything is transmitted: no store, registry or message log of any worker
\* changes (so the object, stored or not, is given no origin), no id is drawn
\* and nothing is returned.
C16_SeveralDestinationsRejected ==
    [][(last'.op = "send" /\ Len(last'.workers) >= 2) =>
          /\ last'.err = "NotImplementedError"
          /\ last'.ret = RetNone
          /\ UNCHANGED <<heapVars, ID_PROVIDER>>]_vars

\* C16 witness: a grad-tracked send of a stored object to two workers was
\* rejected.
C16_Witness ==
    /\ last.op = "send" /\ Len(last.workers) = 2
    /\ last.requires_grad /\ last.stored
    /\ last.err = "NotImplementedError"
    /\ \A o \in Values(Store(last.self)) : o.origin = <<>>

\* the send just made had one destination, a worker
SentToOne ==
    /\ last.op = "send" /\ Len(last.workers) = 1 /\ last.workers[1].t = "worker"

C18_PtrIdIsRemoteId ==
    (SentToOne /\ last.err = "none" /\ last.ptr_id # 0) =>
       /\ last.ptr_id \in DOMAIN Store(last.workers[1].v)
       /\ Store(last.workers[1].v)[last.ptr_id].val = last.obj.val
       /\ Store(last.workers[1].v)[last.ptr_id].kind = last.obj.kind

\* the request_obj just made returned the object that location stored under
\* obj_id
ObjectHandedOver ==
    /\ last'.op = "request_obj" /\ last'.err = "none"
    /\ last'.obj_id \in DOMAIN Store(last'.location)
    /\ last'.ret.t = "obj"
    /\ Observable(last'.ret.v) = Observable(Store(last'.location)[last'.obj_id])

\* C19 as stated: when request_obj returns the object a holder stored under
\* an id, the holder's store has no entry for the id afterwards, for a client
\* worker as for any other.
C19_RequestRemoves ==
    [][ObjectHandedOver =>
          last'.obj_id \notin DOMAIN _objects'[osRef[last'.location]]]_vars

\* the request_obj just made asked for a stored object whose allow(user)
\* refuses the user
Refused(o) ==
    /\ last'.op = "request_obj"
    /\ last'.obj_id \in DOMAIN Store(last'.location)
    /\ o = Store(last'.location)[last'.obj_id]
    /\ ~o.private /\ o.has_allow /\ last'.user \notin o.allowed_users

\* C20 as stated: a refused request_obj raises GetNotPermittedError at the
\* requester, returns nothing and leaves the holder as it was.
C20_RefusalChangesNothing ==
    [][last'.op = "request_obj" =>
          \A o \in Values(Store(last'.location)) :
             Refused(o) =>
                /\ last'.err = "GetNotPermittedError" /\ last'.ret = RetNone
                /\ UNCHANGED <<heapVars, ID_PROVIDER>>]_vars

\* C20 amended: a refused request_obj raises GetNotPermittedError at the
\* requester and returns nothing; the object stays registered under its id
\* with every attribute unchanged except the GC toggle, which an object that
\* has one finds set to keep; nothing else changes on any worker.
C20_RefusalKeepsObject ==
    [][last'.op = "request_obj" =>
          \A o \in Values(Store(last'.location)) :
             Refused(o) =>
                /\ last'.err = "GetNotPermittedError" /\ last'.ret = RetNone
                /\ _objects' = [_objects EXCEPT ![osRef[last'.location]][o.id].gc =
                                                  IF @ = "none" THEN "none" ELSE "keep"]
                /\ UNCHANGED <<_known_workers, msg_history, ID_PROVIDER>>]_vars

\* C20 witness: a request for an object with a GC toggle was refused.
C20_Witness ==
    /\ last.op = "request_obj" /\ last.err = "GetNotPermittedError"
    /\ last.self # last.location
    /\ last.obj_id \in DOMAIN Store(last.location)
    /\ Store(last.location)[last.obj_id].gc = "keep"
    /\ Store(last.location)[last.obj_id].has_allow

\* --------------------------------------------------- specification: search
MaxTagged == 2    \* objects registered in the search specification
MaxQuery == 2     \* terms of a query

\* a tensor is created (its id drawn from the id provider) and registered
RegisterTagged(self, tags, private) ==
    LET p == IdPop(ID_PROVIDER)
        obj == [Tensor(p.id, p.id, tags, self) EXCEPT !.private = private]
    IN
    /\ ID_PROVIDER.next <= MaxTagged
    /\ ID_PROVIDER' = p.idp
    /\ _objects' = register_obj(_objects, osRef[self], is_client_worker[self], obj, 0)
    /\ last' = [op |-> "register_obj", self |-> self]
    /\ UNCHANGED <<workerVars, _known_workers, msg_history, local_worker, nops, stack>>

Search(self, query) ==
    LET r == search(Heaps, self, query) IN
    /\ Commit(r)
    /\ last' = [op |-> "search", self |-> self, query |-> query, ret |-> r.ret.v]
    /\ UNCHANGED <<workerVars, local_worker, nops, stack>>

Terms == {TagTerm(tag) : tag \in Tags} \cup {IdTerm(i) : i \in 1..MaxTagged}
Queries == UNION {[1..n -> Terms] : n \in 0..MaxQuery}

InitSearch ==
    /\ WorkersConstructed
    /\ _objects = [w \in StoreWorkers |-> EmptyDict]
    /\ ID_PROVIDER = NewIdProvider(1)
    /\ nops = 0
    /\ last = [op |-> "start"]

NextSearch ==
    \/ \E self \in StoreWorkers, tags \in SUBSET Tags, private \in BOOLEAN :
          RegisterTagged(self, tags, private)
    \/ \E self \in StoreWorkers, query \in Queries : Search(self, query)

SpecSearch == InitSearch /\ [][NextSearch]_vars

\* the tags a query asks for, when every term of it is a tag
QueryTags(query) == {query[n].tag : n \in 1..Len(query)}
AllTagTerms(query) == \A n \in 1..Len(query) : query[n].t = "tag"

\* C3: for a non-empty query of tag terms, search returns exactly the stored
\* objects whose tag set contains every term of the query.
C3_SearchIsAnd ==
    (last.op = "search" /\ Len(last.query) > 0 /\ AllTagTerms(last.query))
       => last.ret = {o \in Values(Store(last.self)) : QueryTags(last.query) \subseteq o.tags}

\* the positions of the query whose term is the id of a stored object
IdHits == {n \in 1..Len(last.query) :
              last.query[n].t = "id" /\ last.query[n].id \in DOMAIN Store(last.self)}

MaxYield == 3       \* values an operation yields
MaxReturnIds == 2   \* return ids a command requests

Outcomes ==
    {[kind |-> "inplace", k |-> 1], [kind |-> "none", k |-> 0], [kind |-> "scalar", k |-> 0]}
       \cup {[kind |-> "values", k |-> k] : k \in 1..MaxYield}
Targets ==
    {FunctionTarget, ForbiddenTarget, SelfTarget, TagTarget("t1")}
       \cup {IdTarget(i) : i \in 1..ExternalId}
ReturnIdLists == UNION {[1..n -> 1..ExternalId] : n \in 0..MaxReturnIds}

\* the local worker sends a TensorCommandMessage with a ComputationAction to
\* executor
RemoteComputation(executor, target, outcome, return_ids, return_value) ==
    LET msg == ComputationMessage(target, outcome, return_ids, return_value)
        r == send_msg(Heaps, local_worker, msg, RetWorker(executor))
    IN
    /\ Step
    /\ Commit(r)
    /\ last' = [op |-> "computation", self |-> executor, return_ids |-> return_ids,
                yields |-> IF resolve_target(Heaps, executor, msg).called
                           THEN outcome.k ELSE 0,
                before |-> DOMAIN Store(executor),
                given |-> ID_PROVIDER.given, next |-> ID_PROVIDER.next,
                ret |-> r.ret, err |-> r.err]
    /\ UNCHANGED <<workerVars, local_worker, stack>>

SendCommand(self, recipient, target, outcome, return_ids, return_value) ==
    LET r == send_command(Heaps, self, recipient, target, outcome, return_ids, return_value)
        c == command_return_ids(Heaps, return_ids)
        sent == send_msg(c.st, self, ComputationMessage(target, outcome, c.ids, return_value),
                         RetWorker(recipient))
    IN
    /\ Step
    /\ Commit(r)
    /\ last' = [op |-> "send_command", self |-> self, recipient |-> recipient,
                return_ids |-> c.ids,
                mismatch |-> sent.err = "ResponseSignatureError",
                carried |-> IF sent.err = "ResponseSignatureError" THEN sent.ret.v ELSE <<>>,
                nothing |-> sent.err = "none" /\ sent.ret.t = "none",
                calls |-> r.st.calls, ret |-> r.ret, err |-> r.err]
    /\ UNCHANGED <<workerVars, local_worker, stack>>

\* one tagged object is registered, on the worker that is no client
InitCmd ==
    /\ WorkersConstructed
    /\ _objects = [w \in StoreWorkers |->
                     IF w = 2 THEN [i \in ObjIds |-> Tensor(i, i, {"t1"}, 2)] ELSE EmptyDict]
    /\ ID_PROVIDER = NewIdProvider(FirstFreshId)
    /\ nops = 0
    /\ last = [op |-> "start"]

NextCmd ==
    \/ \E executor \in StoreWorkers, target \in Targets, outcome \in Outcomes,
          return_ids \in ReturnIdLists, return_value \in BOOLEAN :
          RemoteComputation(executor, target, outcome, return_ids, return_value)
    \/ \E recipient \in StoreWorkers, target \in {FunctionTarget, IdTarget(1)},
          outcome \in Outcomes, return_ids \in ReturnIdLists \cup {<<0>>},
          return_value \in BOOLEAN :
          SendCommand(local_worker, recipient, target, outcome, return_ids, return_value)

SpecCmd == InitCmd /\ [][NextCmd]_vars

\* ---------------------------------------------------- claims on the commands
Range(seq) == {seq[j] : j \in 1..Len(seq)}
Distinct(seq) == \A i, j \in 1..Len(seq) : seq[i] = seq[j] => i = j

\* a computation command whose operation yielded k >= 1 values for n # k
\* requested return ids
ArityMismatch ==
    /\ last.op = "computation"
    /\ last.yields >= 1
    /\ last.yields # Len(last.return_ids)

\* the handler raised the arity-mismatch condition with as many ids as values
SignalsYieldedArity ==
    /\ last.err = "ResponseSignatureError"
    /\ last.ret.t = "ids"
    /\ Len(last.ret.v) = last.yields

\* the j-th value is in the executing worker's store under the j-th carried id
ValuesRegistered ==
    \A j \in 1..Len(last.ret.v) :
       /\ last.ret.v[j] \in DOMAIN Store(last.self)
       /\ Store(last.self)[last.ret.v[j]].val = 0 - j

\* C4 as stated: on an arity mismatch the handler signals the condition with
\* exactly k ids and the k values are registered in the executing worker's
\* store under those ids.
C4_MismatchRegistersValues ==
    ArityMismatch => (SignalsYieldedArity /\ ValuesRegistered)

\* C4 amended: the condition carries exactly k ids; the values are registered
\* under them when the executing worker is no client worker and the carried ids
\* are pairwise distinct.
C4_MismatchCarriesArity ==
    ArityMismatch =>
       /\ SignalsYieldedArity
       /\ (~is_client_worker[last.self] /\ Distinct(last.ret.v)) => ValuesRegistered

\* more values than requested ids have been registered under the carried ids
C4_Witness ==
    /\ ArityMismatch /\ SignalsYieldedArity /\ ValuesRegistered
    /\ ~is_client_worker[last.self]
    /\ Len(last.return_ids) >= 1
    /\ last.yields > Len(last.return_ids)

Signalled == last.op = "computation" /\ last.err = "ResponseSignatureError"

ReturnedPointers ==
    IF last.ret.t = "obj" THEN <<last.ret.v>>
    ELSE IF last.ret.t = "pointers" THEN last.ret.v ELSE <<>>

\* one pointer per carried id, in order, to the recipient; a single pointer is
\* returned bare
PointersFollowCarriedIds ==
    /\ last.err = "none"
    /\ Len(ReturnedPointers) = Len(last.carried)
    /\ (last.ret.t = "obj") <=> (Len(last.carried) = 1)
    /\ \A j \in 1..Len(last.carried) :
          /\ ReturnedPointers[j].kind = "pointer"
          /\ ReturnedPointers[j].location = last.recipient
          /\ ReturnedPointers[j].id_at_location = last.carried[j]

PointersHaveEntries ==
    \A j \in 1..Len(ReturnedPointers) :
       ReturnedPointers[j].id_at_location \in DOMAIN Store(last.recipient)

\* C6 as stated: after an arity mismatch send_command returns one pointer per
\* carried id and each of them refers to an entry of the recipient's store.
C6_PointersToEntries ==
    (last.op = "send_command" /\ last.mismatch)
       => (PointersFollowCarriedIds /\ PointersHaveEntries)

\* C6 amended: the pointers follow the carried ids; they refer to entries of
\* the recipient's store when the recipient is no client worker.
C6_PointersFollowCarriedIds ==
    (last.op = "send_command" /\ last.mismatch)
       => /\ PointersFollowCarriedIds
          /\ ~is_client_worker[last.recipient] => PointersHaveEntries

\* a list of pointers to registered values has been returned after a mismatch
C6_Witness ==
    /\ last.op = "send_command" /\ last.mismatch
    /\ ~is_client_worker[last.recipient]
    /\ last.ret.t = "pointers" /\ Len(last.ret.v) >= 2
    /\ PointersFollowCarriedIds /\ PointersHaveEntries
    /\ last.carried # last.return_ids

\* ------------------------------------------ specification: calls in progress
\* A frame of the stack is a call of send_msg (self sends msg to location) or
\* of recv_msg (self handles msg).  pc of a send_msg frame: "sent" (handed to
\* the transport), "awaiting" (the destination's recv_msg runs), "replied";
\* pc of a recv_msg frame: "entered", "waiting" (the handler waits in a send_msg
\* of its own), "handled".  dispatched counts the handler calls made for the
\* message of a send_msg frame, saved is what a waiting handler still needs.
MaxNest == 1      \* worker commands wrapped around a message

NoSaved == [obj |-> NoObj, location |-> RetNone, ptr_id |-> 0, stored |-> FALSE]
NoReply == [ret |-> RetNone, err |-> "none"]
Frame(f, self, location, msg, pc) ==
    [f |-> f, self |-> self, location |-> location, msg |-> msg, pc |-> pc,
     dispatched |-> 0, saved |-> NoSaved, reply |-> NoReply]

\* the send_msg a handler makes before it can finish: [active, st, msg,
\* location, saved]
nested_send(st, self, msg) ==
    LET none == [active |-> FALSE, st |-> st, msg |-> msg, location |-> RetNone,
                 saved |-> NoSaved]
    IN
    IF msg.type = "TensorCommandMessage" /\ msg.action = "communication"
       /\ msg.target_owner = self
    THEN LET c == communication_prepare(st, self, msg)
             p == send_prepare(c.st, self, c.obj, c.workers, msg.requires_grad)
         IN  IF c.err = "none" /\ p.err = "none" /\ p.location.t = "worker"
             THEN [active |-> TRUE, st |-> p.st, msg |-> ObjectMessage(p.obj),
                   location |-> p.location,
                   saved |-> [obj |-> c.obj, location |-> p.location,
                              ptr_id |-> c.ptr_id, stored |-> p.stored]]
             ELSE none
    ELSE IF msg.type = "WorkerCommandMessage" /\ msg.location.t = "worker"
    THEN [none EXCEPT !.active = TRUE, !.msg = msg.message, !.location = msg.location]
    ELSE none

\* the rest of a handler once its send_msg has returned r
resume(r, self, msg, saved) ==
    IF msg.type = "WorkerCommandMessage" THEN worker_command_response(r, self, msg)
    ELSE communication_response(
            send_pointer(r, self, saved.obj, saved.location, saved.ptr_id,
                         msg.requires_grad, TRUE, saved.stored),
            self, msg)

\* a recv_msg that returns while its handler is still in a send_msg
dispatch_frame_returning(frame, n, r) ==
    [frame EXCEPT !.pc = "handled", !.saved = n.saved,
                  !.reply = IF n.active THEN NoReply ELSE [ret |-> r.ret, err |-> r.err]]

\* recv_msg, step 2 as seen on the stack: the call of the handler returns when
\* the handler has finished; until then recv_msg waits
dispatch_frame(frame, n, r) ==
    IF n.active THEN [frame EXCEPT !.pc = "waiting", !.saved = n.saved]
    ELSE [frame EXCEPT !.pc = "handled", !.reply = [ret |-> r.ret, err |-> r.err]]

Top == stack[Len(stack)]
Below == SubSeq(stack, 1, Len(stack) - 1)

\* an application calls send_msg on self
CallSendMsg(self, msg, location) ==
    /\ stack = <<>>
    /\ Step
    /\ stack' = <<Frame("send_msg", self, location, msg, "sent")>>
    /\ last' = [op |-> "call"]
    /\ UNCHANGED <<workerVars, heapVars, local_worker, ID_PROVIDER>>

\* send_msg, step 2: _send_msg hands the message to the worker at location,
\* whose recv_msg is entered; a location that is no worker cannot be called
Transport ==
    /\ stack # <<>>
    /\ Top.f = "send_msg" /\ Top.pc = "sent"
    /\ stack' = IF Top.location.t = "worker"
                THEN Append([stack EXCEPT ![Len(stack)].pc = "awaiting"],
                            Frame("recv_msg", Top.location.v, RetNone, Top.msg, "entered"))
                ELSE [stack EXCEPT ![Len(stack)].pc = "replied",
                                   ![Len(stack)].reply = [ret |-> RetNone,
                                                          err |-> "AttributeError"]]
    /\ UNCHANGED <<workerVars, heapVars, local_worker, ID_PROVIDER, nops, last>>

\* recv_msg, steps 0 to 2: the message is logged and its handler is called; the
\* handler finishes, or stops in a send_msg of its own
Dispatch ==
    /\ stack # <<>>
    /\ Top.f = "recv_msg" /\ Top.pc = "entered"
    /\ LET st1 == log_message(Heaps, Top.self, Top.msg)
           n == nested_send(st1, Top.self, Top.msg)
           r == IF n.active THEN Return(n.st, RetNone) ELSE route(st1, Top.self, Top.msg)
           counted == [Below EXCEPT ![Len(Below)].dispatched = @ + 1]
           handler == dispatch_frame(Top, n, r)
       IN  /\ Commit(r)
           /\ stack' = IF n.active
                       THEN counted \o <<handler,
                                         Frame("send_msg", Top.self, n.location, n.msg, "sent")>>
                       ELSE Append(counted, handler)
    /\ UNCHANGED <<workerVars, local_worker, nops, last>>

\* recv_msg, step 3: the handler's answer goes back to the send_msg that waits
ReturnRecv ==
    /\ stack # <<>>
    /\ Top.f = "recv_msg" /\ Top.pc = "handled"
    /\ stack' = [Below EXCEPT ![Len(Below)].pc = "replied", ![Len(Below)].reply = Top.reply]
    /\ UNCHANGED <<workerVars, heapVars, local_worker, ID_PROVIDER, nops, last>>

\* send_msg, step 3: the response is deserialized and returned, to the
\* application or to the handler that made the call, which then finishes
ReturnSend ==
    /\ stack # <<>>
    /\ Top.f = "send_msg" /\ Top.pc = "replied"
    /\ LET r == send_msg_response(Top.self,
                                  [st |-> Heaps, ret |-> Top.reply.ret, err |-> Top.reply.err])
       IN  IF Below = <<>>
           THEN /\ stack' = <<>>
                /\ last' = [op |-> "send_msg", self |-> Top.self, location |-> Top.location,
                            type |-> Top.msg.type, dispatched |-> Top.dispatched,
                            handled |-> Top.reply, ret |-> r.ret, err |-> r.err]
                /\ UNCHANGED <<heapVars, ID_PROVIDER>>
           ELSE LET handler == Below[Len(Below)]
                    res == resume(r, handler.self, handler.msg, handler.saved)
                IN  /\ Commit(res)
                    /\ stack' = [Below EXCEPT ![Len(Below)].pc = "handled",
                                              ![Len(Below)].reply =
                                                  [ret |-> res.ret, err |-> res.err]]
                    /\ UNCHANGED last
    /\ UNCHANGED <<workerVars, local_worker, nops>>

\* the messages an application sends
PlainMessages ==
    {ObjectMessage(ExternalTensor(w)) : w \in StoreWorkers}
       \cup {ObjectRequestMessage(i, u) : i \in ObjIds, u \in {NoUser, "u1"}}
       \cup {CommunicationMessage(i, o, <<d>>, g) :
                 i \in ObjIds, o \in StoreWorkers, d \in DestIds, g \in BOOLEAN}
RECURSIVE Messages(_)
Messages(nest) ==
    IF nest = 0 THEN PlainMessages
    ELSE Messages(nest - 1)
            \cup {WorkerCommandMessage(m, RetWorker(w), i) :
                     m \in Messages(nest - 1), w \in StoreWorkers, i \in {0, ExternalId}}

NextMsg ==
    \/ \E msg \in Messages(MaxNest), location \in StoreWorkers :
          CallSendMsg(local_worker, msg, RetWorker(location))
    \/ Transport
    \/ Dispatch
    \/ ReturnRecv
    \/ ReturnSend

SpecMsg == InitStore /\ [][NextMsg]_vars

\* ------------------------------------------------------ claims on the calls
\* what a caller sees of a returned value
Observed(ret) == IF ret.t = "obj" THEN [t |-> "obj", v |-> Observable(ret.v)] ELSE ret

\* every send_msg in progress has made no handler call before the transport
\* took its message, waits right below the recv_msg that handles its message at
\* its destination, and has its reply only after exactly one handler call
RepliesAwaited ==
    \A i \in 1..Len(stack) :
       stack[i].f = "send_msg" =>
          /\ stack[i].pc = "sent" => (i = Len(stack) /\ stack[i].dispatched = 0)
          /\ stack[i].pc = "awaiting" =>
                /\ i < Len(stack)
                /\ stack[i].dispatched <= 1
                /\ stack[i + 1].f = "recv_msg"
                /\ stack[i + 1].self = stack[i].location.v
                /\ stack[i + 1].msg = stack[i].msg
          /\ stack[i].pc = "replied" => (i = Len(stack) /\ stack[i].dispatched = 1)

\* C7: a send_msg call causes exactly one handler call at its destination,
\* returns after that handler has finished, and returns what the handler
\* returned or raises what it raised.
C7_SendMsgIsSynchronous ==
    /\ RepliesAwaited
    /\ last.op = "send_msg" =>
          /\ last.dispatched = 1
          /\ last.err = last.handled.err
          /\ Observed(last.ret) = Observed(last.handled.ret)

\* a send_msg has returned the object its one handler call returned
C7_Witness ==
    /\ last.op = "send_msg" /\ last.dispatched = 1
    /\ last.err = "none" /\ last.ret.t = "obj"
    /\ last.type = "ObjectRequestMessage"
    /\ stack = <<>>

\* C8 as stated: no worker has two recv_msg calls in progress.
C8_NoTwoHandlers ==
    \A i, j \in 1..Len(stack) :
       (i < j /\ stack[i].f = "recv_msg" /\ stack[j].f = "recv_msg")
          => stack[i].self # stack[j].self

\* C8 amended: only the innermost recv_msg runs; every other recv_msg in
\* progress waits in a send_msg that its own handler made.
C8_HandlersNested ==
    \A i \in 1..Len(stack) :
       (stack[i].f = "recv_msg" /\ i < Len(stack))
          => /\ stack[i].pc = "waiting"
             /\ stack[i + 1].f = "send_msg"
             /\ stack[i + 1].self = stack[i].self

\* a worker handles a message while an earlier handler of its own waits
C8_Witness ==
    \E i, j \in 1..Len(stack) :
       /\ i < j
       /\ stack[i].f = "recv_msg" /\ stack[j].f = "recv_msg"
       /\ stack[i].self = stack[j].self
       /\ stack[i].pc = "waiting" /\ stack[j].pc = "entered"

\* ------------------------------------------ specification: the message router
\* the transport hands a message to recv_msg of self
RecvMsg(self, msg) ==
    LET r == recv_msg(Heaps, self, msg) IN
    /\ Step
    /\ Commit(r)
    /\ last' = [op |-> "recv_msg", self |-> self, type |-> msg.type, msg |-> msg,
                handler |-> _message_router[self][msg.type].handler,
                before |-> DOMAIN Store(self), calls |-> r.st.calls,
                ret |-> r.ret, err |-> r.err]
    /\ UNCHANGED <<workerVars, local_worker, stack>>

\* one more worker is constructed against the local worker: with the id of an
\* existing worker, or with an id that is not taken
Rebuild(id) ==
    /\ NextInst = NumWorkers + 1
    /\ Construct(NextInst, id, "Base", FALSE, FALSE, TRUE, TRUE, <<>>)

\* messages of the nine types
RouterMessages ==
    PlainMessages
       \cup {WorkerCommandMessage(ObjectRequestMessage(i, NoUser), RetWorker(w), ExternalId) :
                 i \in ObjIds, w \in StoreWorkers}
       \cup {PlanCommandMessage(c, i, copy) :
                 c \in {"fetch_plan", "fetch_protocol", "fetch"}, i \in ObjIds,
                 copy \in BOOLEAN}
       \cup {SearchMessage(<<>>), SearchMessage(<<IdTerm(1)>>)}
       \cup {IsNoneMessage(i) : i \in ObjIds \cup {ExternalId}}
       \cup {GetShapeMessage(i) : i \in ObjIds \cup {ExternalId}}
       \cup {ForceObjectDeleteMessage(i) : i \in ObjIds \cup {ExternalId}}

NextRouter ==
    \/ \E self \in alive, msg \in RouterMessages : RecvMsg(self, msg)
    \/ \E id \in 0..NumWorkers : Rebuild(id)

SpecRouter == InitStore /\ [][NextRouter]_vars

\* ---------------------------------------------------- claims on the router
\* the handler of each message type
HandlerOf ==
    [type \in {"ObjectMessage", "ObjectRequestMessage", "TensorCommandMessage",
               "WorkerCommandMessage", "PlanCommandMessage", "SearchMessage",
               "IsNoneMessage", "GetShapeMessage", "ForceObjectDeleteMessage"} |->
        CASE type = "ObjectMessage" -> "handle_object_msg"
          [] type = "ObjectRequestMessage" -> "respond_to_obj_req"
          [] type = "TensorCommandMessage" -> "execute_tensor_command"
          [] type = "WorkerCommandMessage" -> "execute_worker_command"
          [] type = "PlanCommandMessage" -> "execute_plan_command"
          [] type = "SearchMessage" -> "respond_to_search"
          [] type = "IsNoneMessage" -> "is_object_none"
          [] type = "GetShapeMessage" -> "handle_get_shape_message"
          [] type = "ForceObjectDeleteMessage" -> "handle_force_delete_object_msg"]

\* the router of w has one handler for each of the nine message types, bound
\* to a worker that has the state of w
RouterTotal(w) ==
    /\ DOMAIN _message_router[w] = DOMAIN HandlerOf
    /\ \A type \in DOMAIN HandlerOf :
          /\ _message_router[w][type].handler = HandlerOf[type]
          /\ osRef[_message_router[w][type].self] = osRef[w]
          /\ kwRef[_message_router[w][type].self] = kwRef[w]
          /\ mhRef[_message_router[w][type].self] = mhRef[w]

\* C15: the router of every worker maps each of the nine message types to one
\* handler, recv_msg dispatches a message to the handler of its type, a
\* ForceObjectDeleteMessage leaves its id absent from the store, and no step
\* changes the router of a worker.
C15_RouterFixedAndTotal ==
    /\ [](\A w \in alive : RouterTotal(w))
    /\ [](last.op = "recv_msg" =>
            /\ last.handler = HandlerOf[last.type]
            /\ last.type = "ForceObjectDeleteMessage" =>
                  (last.err = "none" /\ last.msg.object_id \notin DOMAIN Store(last.self)))
    /\ [][\A w \in alive : _message_router'[w] = _message_router[w]]_vars

\* C15 witness: a worker constructed with the id of an existing worker has
\* received a ForceObjectDeleteMessage for an object of the store.
C15_Witness ==
    /\ last.op = "recv_msg" /\ last.type = "ForceObjectDeleteMessage"
    /\ last.self = NumWorkers + 1
    /\ last.msg.object_id \in last.before
    /\ last.msg.object_id \notin DOMAIN Store(last.self)

\* ------------------------------------------- specification: lookups by id
\* the objects a store holds at the start of the lookup specification
GetProfiles(id, holder) ==
    LET t == Tensor(id, id, {}, holder) IN
    {t, [t EXCEPT !.private = TRUE],
        [t EXCEPT !.private = TRUE, !.gc = "collect"],
        [t EXCEPT !.gc = "collect"],
        [t EXCEPT !.has_allow = TRUE, !.allowed_users = {"u1"}]}

InitGet ==
    /\ WorkersConstructed
    /\ \E holder \in StoreWorkers :
       \E objs \in [ObjIds -> UNION {GetProfiles(i, holder) : i \in ObjIds}] :
          /\ \A i \in ObjIds : objs[i] \in GetProfiles(i, holder)
          /\ _objects = [w \in StoreWorkers |-> IF w = holder THEN objs ELSE EmptyDict]
    /\ ID_PROVIDER = NewIdProvider(FirstFreshId)
    /\ nops = 0
    /\ last = [op |-> "start"]

\* self.get_obj(obj_id), called on the worker itself
GetObj(self, obj_id) ==
    LET g == get_obj(Heaps, self, obj_id) IN
    /\ Commit(g)
    /\ last' = [op |-> "get_obj", self |-> self, obj_id |-> obj_id,
                ret |-> RetObj(g.obj), err |-> g.err]
    /\ UNCHANGED <<workerVars, local_worker, nops, stack>>

\* self.request_is_remote_tensor_none(pointer), for a pointer to obj_id at
\* location
RequestIsNone(self, location, obj_id) ==
    LET r == send_msg(Heaps, self, IsNoneMessage(obj_id), RetWorker(location)) IN
    /\ Commit(r)
    /\ last' = [op |-> "is_none", self |-> self, location |-> location,
                obj_id |-> obj_id, ret |-> r.ret, err |-> r.err]
    /\ UNCHANGED <<workerVars, local_worker, nops, stack>>

NextGet ==
    \/ \E self \in StoreWorkers, obj_id \in 1..ExternalId : GetObj(self, obj_id)
    \/ \E self \in StoreWorkers, location \in StoreWorkers, obj_id \in 1..ExternalId :
          RequestIsNone(self, location, obj_id)
    \/ \E self \in StoreWorkers, location \in StoreWorkers,
          obj_id \in 1..ExternalId, user \in Users \cup {NoUser} :
          RequestObj(self, obj_id, location, user)

SpecGet == InitGet /\ [][NextGet]_vars

\* ---------------------------------------------------- claims on the lookups
\* the entry that worker w stores under id has a GC toggle
HasToggle(w, id) == id \in DOMAIN Store(w) /\ Store(w)[id].gc # "none"
\* the entry that worker w stores under id is private
IsPrivate(w, id) == id \in DOMAIN Store(w) /\ Store(w)[id].private

\* C21: after a get_obj for an entry that has a GC toggle the toggle says keep
\* (do not collect), also when the entry is private and the get returned None;
\* a toggle that says keep still says so after any later get_obj.
C21_GetSetsToggle ==
    [][last'.op = "get_obj" =>
          /\ HasToggle(last'.self, last'.obj_id) =>
                /\ last'.obj_id \in DOMAIN _objects'[osRef[last'.self]]
                /\ _objects'[osRef[last'.self]][last'.obj_id].gc = "keep"
          /\ \A w \in StoreWorkers : \A i \in DOMAIN Store(w) :
                Store(w)[i].gc = "keep" =>
                   /\ i \in DOMAIN _objects'[osRef[w]]
                   /\ _objects'[osRef[w]][i].gc = "keep"]_vars

\* C21 witness: a get_obj of a private entry returned None and the toggle of
\* the entry says keep.
C21_Witness ==
    /\ last.op = "get_obj" /\ last.err = "none" /\ last.ret.t = "none"
    /\ IsPrivate(last.self, last.obj_id)
    /\ Store(last.self)[last.obj_id].gc = "keep"

\* C22: get_obj of a private entry returns None and the entry stays; a
\* request_obj for a private entry returns None to the requester and the entry
\* stays registered; the is-none probe raises ObjectNotFoundError for an id
\* without entry and returns True, raising nothing, for a private entry.
C22_PrivateIsAbsentResult ==
    [][/\ last'.op = "get_obj" =>
             (IsPrivate(last'.self, last'.obj_id) =>
                 /\ last'.err = "none" /\ last'.ret.t = "none"
                 /\ last'.obj_id \in DOMAIN _objects'[osRef[last'.self]])
       /\ last'.op = "request_obj" =>
             (IsPrivate(last'.location, last'.obj_id) =>
                 /\ last'.err = "none" /\ last'.ret.t = "none"
                 /\ last'.obj_id \in DOMAIN _objects'[osRef[last'.location]]
                 /\ Observable(_objects'[osRef[last'.location]][last'.obj_id])
                       = Observable(Store(last'.location)[last'.obj_id]))
       /\ last'.op = "is_none" =>
             /\ last'.obj_id \notin DOMAIN Store(last'.location) =>
                   last'.err = "ObjectNotFoundError"
             /\ IsPrivate(last'.location, last'.obj_id) =>
                   (last'.err = "none" /\ last'.ret.t = "bool" /\ last'.ret.v)]_vars

\* C22 witness: the is-none probe of another worker's private entry returned
\* True.
C22_Witness ==
    /\ last.op = "is_none" /\ last.err = "none" /\ last.ret.t = "bool" /\ last.ret.v
    /\ last.self # last.location
    /\ IsPrivate(last.location, last.obj_id)

\* ------------------------------------------- specification: client workers
\* self.register_obj(obj)
Register(self, obj) ==
    /\ Step
    /\ _objects' = register_obj(_objects, osRef[self], is_client_worker[self], obj, 0)
    /\ last' = [op |-> "register_obj", self |-> self, obj_id |-> obj.id]
    /\ UNCHANGED <<workerVars, _known_workers, msg_history, local_worker, ID_PROVIDER, stack>>

\* with self.registration_enabled(): self.register_obj(obj), after which the
\* body raises or not.  The flag is cleared for the body and set when the body
\* is left, either way.
RegistrationEnabled(self, obj, raises) ==
    /\ Step
    /\ _objects' = register_obj(_objects, osRef[self], FALSE, obj, 0)
    /\ is_client_worker' = [is_client_worker EXCEPT ![self] = TRUE]
    /\ last' = [op |-> "registration_enabled", self |-> self, obj_id |-> obj.id,
                err |-> IF raises THEN "RuntimeError" ELSE "none"]
    /\ UNCHANGED <<alive, wid, wkind, log_msgs, kwRef, osRef, mhRef, _message_router,
                   _known_workers, msg_history, local_worker, ID_PROVIDER, stack>>

\* self.request_search(query, location)
RequestSearch(self, query, location) ==
    LET r == request_search(Heaps, self, query, location) IN
    /\ Step
    /\ Commit(r)
    /\ last' = [op |-> "request_search", self |-> self, location |-> location,
                query |-> query, before |-> DOMAIN Store(self),
                ret |-> r.ret, err |-> r.err]
    /\ UNCHANGED <<workerVars, local_worker, stack>>

\* the transport hands self a WorkerCommandMessage for the command send_msg.
\* executor is the worker the routing table of self binds the handler to,
\* result is what the command returned to it, mid the ids of its store then
WorkerCommand(self, msg) ==
    LET r == recv_msg(Heaps, self, msg)
        executor == _message_router[self][msg.type].self
        c == send_msg(log_message(Heaps, self, msg), executor, msg.message, msg.location)
    IN
    /\ Step
    /\ Commit(r)
    /\ last' = [op |-> "worker_command", self |-> self, executor |-> executor,
                return_id |-> msg.return_id, result |-> [ret |-> c.ret, err |-> c.err],
                mid |-> DOMAIN c.st.os[osRef[executor]], ret |-> r.ret, err |-> r.err]
    /\ UNCHANGED <<workerVars, local_worker, stack>>

\* one more worker is constructed with initial data, as a client or not
BuildWithData(id, client) ==
    /\ NextInst = NumWorkers + 1
    /\ Construct(NextInst, id, "Base", client, FALSE, TRUE, TRUE,
                 <<Tensor(ExternalId, ExternalId, {}, 0)>>)

\* the client worker 1 holds nothing, worker 2 holds one tagged tensor
InitClient ==
    /\ WorkersConstructed
    /\ _objects = [w \in StoreWorkers |->
                     IF w = 2 THEN [i \in ObjIds |-> Tensor(i, i, {"t1"}, 2)] ELSE EmptyDict]
    /\ ID_PROVIDER = NewIdProvider(FirstFreshId)
    /\ nops = 0
    /\ last = [op |-> "start"]

\* worker commands: send_msg of a request for an object or of an is-none
\* probe, with one return id or with none (return_id 0)
WorkerCommands ==
    {WorkerCommandMessage(m, RetWorker(w), i) :
        m \in {ObjectRequestMessage(1, NoUser), IsNoneMessage(1)},
        w \in StoreWorkers, i \in {0, 1, ExternalId}}

NextClient ==
    \/ \E self \in alive : Register(self, ExternalTensor(self))
    \/ \E self \in alive : RegistrationEnabled(self, ExternalTensor(self), FALSE)
    \/ \E self \in alive, location \in StoreWorkers,
          query \in {<<TagTerm("t1")>>, <<IdTerm(1)>>, <<>>} :
          RequestSearch(self, query, location)
    \/ \E self \in alive, w \in StoreWorkers : RecvMsg(self, ObjectMessage(ExternalTensor(w)))
    \/ \E self \in alive, msg \in WorkerCommands : WorkerCommand(self, msg)
    \/ \E id \in 0..NumWorkers, client \in BOOLEAN : BuildWithData(id, client)

SpecClient == InitClient /\ [][NextClient]_vars

\* ------------------------------------------------ claims on client workers
\* C23 as stated: the store of a client worker is empty in every reachable
\* state.
C23_ClientStoreEmpty ==
    \A w \in alive : is_client_worker[w] => Store(w) = EmptyDict

\* the step is a register_obj, a construction (with initial data), a
\* request_search or the handling of a worker command
RegistersThroughRegisterObj ==
    last'.op \in {"register_obj", "init", "request_search", "worker_command"}

\* the worker whose register_obj the step ran: the caller, or the worker the
\* routing table binds the worker command's handler to
Registrar == IF last'.op = "worker_command" THEN last'.executor ELSE last'.self

\* C23 amended: on a worker whose is_client flag is true, register_obj,
\* initial data at construction, the results of request_search and the tensor
\* result of a worker command add no entry to the worker's store.
C23_ClientRegistersNothing ==
    [][RegistersThroughRegisterObj =>
          (is_client_worker'[Registrar] =>
              \A i \in DOMAIN _objects'[osRef'[Registrar]] :
                 \E x \in alive : osRef[x] = osRef'[Registrar] /\ i \in DOMAIN Store(x))]_vars

\* C23 witness: a client worker has got a pointer from request_search and its
\* store is empty.
C23_Witness ==
    /\ last.op = "request_search" /\ last.err = "none"
    /\ is_client_worker[last.self]
    /\ last.ret.t = "list" /\ last.ret.v # {}
    /\ Store(last.self) = EmptyDict

\* the worker command just handled ran a command that returned a tensor
TensorResult ==
    /\ last'.op = "worker_command" /\ last'.result.err = "none"
    /\ last'.result.ret.t = "obj" /\ last'.result.ret.v.kind = "tensor"

\* the worker command just handled ran a command that returned something else
OtherResult ==
    /\ last'.op = "worker_command" /\ last'.result.err = "none"
    /\ ~(last'.result.ret.t = "obj" /\ last'.result.ret.v.kind = "tensor")

\* the handler answered None and registered the tensor under the return id
RegisteredUnderReturnId ==
    /\ last'.err = "none" /\ last'.ret.t = "none"
    /\ last'.return_id \in DOMAIN _objects'[osRef[last'.executor]]
    /\ _objects'[osRef[last'.executor]][last'.return_id].val = last'.result.ret.v.val
    /\ _objects'[osRef[last'.executor]][last'.return_id].kind = "tensor"

\* the handler answered what the command returned and registered nothing
ResultHandedOn ==
    /\ last'.err = "none" /\ Observed(last'.ret) = Observed(last'.result.ret)
    /\ DOMAIN _objects'[osRef[last'.executor]] = last'.mid

\* C26 as stated: for every WorkerCommandMessage, with return ids or without,
\* a tensor result is registered on the executing worker under the return id and
\* None is answered; any other result is answered unchanged and nothing is
\* registered.
C26_TensorResultRegistered ==
    [][/\ TensorResult => RegisteredUnderReturnId
       /\ OtherResult => ResultHandedOn]_vars

\* C26 amended: a tensor result is registered under return_ids[0] and None is
\* answered when the message has a return id and the executing worker is no
\* client; on a client worker None is answered and nothing is registered;
\* without return ids the handler raises IndexError and registers nothing; any
\* other result is answered unchanged and nothing is registered.
C26_TensorResultNeedsReturnId ==
    [][/\ TensorResult =>
             /\ (last'.return_id # 0 /\ ~is_client_worker[last'.executor]) =>
                   RegisteredUnderReturnId
             /\ (last'.return_id # 0 /\ is_client_worker[last'.executor]) =>
                   /\ last'.err = "none" /\ last'.ret.t = "none"
                   /\ DOMAIN _objects'[osRef[last'.executor]] = last'.mid
             /\ last'.return_id = 0 =>
                   /\ last'.err = "IndexError"
                   /\ DOMAIN _objects'[osRef[last'.executor]] = last'.mid
       /\ OtherResult => ResultHandedOn]_vars

\* C26 witness: a worker that is no client has registered under the return id
\* the tensor it requested from another worker.
C26_Witness ==
    /\ last.op = "worker_command" /\ last.err = "none" /\ last.ret.t = "none"
    /\ last.result.ret.t = "obj" /\ last.result.ret.v.kind = "tensor"
    /\ ~is_client_worker[last.executor]
    /\ last.return_id = ExternalId
    /\ last.return_id \in DOMAIN Store(last.executor)
    /\ last.return_id \notin last.mid

\* ------------------------------------------------ specification: relocation
NumMovers == 3   \* workers of the relocation specification
Movers == 1..NumMovers

\* Workers 1..NumMovers with ids 0..NumMovers-1, known to one another; worker 1
\* is the local worker, a client; log is log_msgs
MoversConstructed(log) ==
    /\ alive = Movers
    /\ wid = [w \in Movers |-> w - 1]
    /\ wkind = [w \in Movers |-> "Base"]
    /\ is_client_worker = [w \in Movers |-> w = 1]
    /\ log_msgs = [w \in Movers |-> log]
    /\ kwRef = [w \in Movers |-> w]
    /\ osRef = [w \in Movers |-> w]
    /\ mhRef = [w \in Movers |-> w]
    /\ _message_router = [w \in Movers |-> NewRouter(w)]
    /\ _known_workers = [w \in Movers |-> [x \in 0..(NumMovers - 1) |-> x + 1]]
    /\ msg_history = [w \in Movers |-> <<>>]
    /\ local_worker = 1
    /\ stack = <<>>

\* worker 2 holds object 1
InitMove ==
    /\ MoversConstructed(FALSE)
    /\ \E o \in Profiles(1, 2) :
          _objects = [w \in Movers |-> IF w = 2 THEN [i \in {1} |-> o] ELSE EmptyDict]
    /\ ID_PROVIDER = NewIdProvider(FirstFreshId)
    /\ nops = 0
    /\ last = [op |-> "start"]

\* destination ids of a CommunicationAction: one id, NumMovers being the id of
\* no worker, or two different ids
MoveArgs ==
    {<<d>> : d \in 0..NumMovers}
       \cup {a \in (0..(NumMovers - 1)) \X (0..(NumMovers - 1)) : a[1] # a[2]}

NextMove ==
    \E executor \in Movers, target_id \in 1..ExternalId, target_owner \in Movers \ {1},
       args \in MoveArgs, requires_grad \in BOOLEAN :
       RemoteSend(executor, target_id, target_owner, args, requires_grad)

SpecMove == InitMove /\ [][NextMove]_vars

\* the worker whose id is x
WorkerOf(x) == CHOOSE w \in alive : wid[w] = x

\* the step is a CommunicationAction executed by the owner of the target, which
\* holds the target as an entry that is not private
OwnerRelocates ==
    /\ last'.op = "communication" /\ last'.self = last'.target_owner
    /\ last'.stored /\ ~last'.private

\* C24: after the owner has executed a CommunicationAction with the
\* destination ids d1..dn, n at least 1, of workers other than the owner, the
\* store of every di holds the target object.
C24_SentToEveryDestination ==
    [][(/\ OwnerRelocates /\ last'.err = "none"
        /\ \A n \in 1..Len(last'.args) :
              last'.args[n] < NumMovers /\ last'.args[n] # wid[last'.self])
       => \A n \in 1..Len(last'.args) :
             last'.target_id \in DOMAIN _objects'[osRef[WorkerOf(last'.args[n])]]]_vars

\* the step is a CommunicationAction that is not grad-tracked, for an entry of
\* the owner's store and the single destination id of a worker, executed by
\* the owner
RelocatesToOne ==
    /\ last'.op = "communication" /\ last'.self = last'.target_owner
    /\ last'.stored /\ ~last'.requires_grad
    /\ Len(last'.args) = 1 /\ last'.args[1] < NumMovers

\* i is absent from the owner's store, present in D's store, and the pointer
\* returned refers to (D, i) with garbage_collect_data false
Relocated ==
    LET D == WorkerOf(last'.args[1]) IN
    /\ last'.err = "none"
    /\ last'.target_id \notin DOMAIN _objects'[osRef[last'.self]]
    /\ last'.target_id \in DOMAIN _objects'[osRef[D]]
    /\ last'.ret.t = "obj" /\ last'.ret.v.kind = "pointer"
    /\ last'.ret.v.location = D /\ last'.ret.v.id_at_location = last'.target_id
    /\ last'.ret.v.gc = "keep"

\* a worker that is not the target's owner sends nothing and changes no store
NotTheOwner ==
    (last'.op = "communication" /\ last'.self # last'.target_owner)
       => (last'.err = "none" /\ last'.ret.t = "none" /\ _objects' = _objects)

\* C25 as stated: after the owner has executed a CommunicationAction that is
\* not grad-tracked for the object with id i and a single destination D, i is
\* absent from the owner's store and present in D's, and the pointer returned
\* refers to (D, i) with garbage_collect_data false; a worker that is not the
\* owner sends nothing and changes no store.
C25_Relocated ==
    [][(RelocatesToOne => Relocated) /\ NotTheOwner]_vars

\* C25 amended: the same, for an entry that is not private and can be pointed
\* at (no Protocol) and a destination D other than the owner.
C25_RelocatedToAnother ==
    [][/\ (/\ RelocatesToOne /\ ~last'.private /\ last'.pointer_able
           /\ last'.args[1] # wid[last'.self])
            => Relocated
       /\ NotTheOwner]_vars

\* C25 witness: the owner has relocated object 1 to another worker, whose
\* store holds it now.
C25_Witness ==
    /\ last.op = "communication" /\ last.self = last.target_owner /\ last.err = "none"
    /\ last.stored /\ ~last.private /\ last.pointer_able /\ ~last.requires_grad
    /\ Len(last.args) = 1 /\ last.args[1] < NumMovers /\ last.args[1] # wid[last.self]
    /\ last.target_id \notin DOMAIN Store(last.self)
    /\ last.target_id \in DOMAIN Store(WorkerOf(last.args[1]))
    /\ last.ret.t = "obj" /\ last.ret.v.gc = "keep"

\* ------------------------------------------ specification: plans and protocols
\* the objects of the initial store: a tensor, a plan or a protocol
PlanProfiles(id, holder) ==
    LET t == Tensor(id, id, {}, holder) IN
    {t, [t EXCEPT !.kind = "plan"], [t EXCEPT !.kind = "protocol"]}

\* worker 2 holds the objects 1 and ExternalId
InitPlan ==
    /\ WorkersConstructed
    /\ \E a \in PlanProfiles(1, 2), b \in PlanProfiles(ExternalId, 2) :
          _objects = [w \in StoreWorkers |->
                         IF w = 2 THEN [i \in {1, ExternalId} |-> IF i = 1 THEN a ELSE b]
                         ELSE EmptyDict]
    /\ ID_PROVIDER = NewIdProvider(FirstFreshId)
    /\ nops = 0
    /\ last = [op |-> "start"]

\* self.fetch_plan(plan_id, location, copy)
FetchPlan(self, plan_id, location, copy) ==
    LET r == send_msg(Heaps, self, PlanCommandMessage("fetch_plan", plan_id, copy),
                      RetWorker(location))
    IN
    /\ Step
    /\ Commit(r)
    /\ last' = [op |-> "fetch", kind |-> "plan", self |-> self, location |-> location,
                id |-> plan_id, copy |-> copy, ret |-> r.ret, err |-> r.err]
    /\ UNCHANGED <<workerVars, local_worker, stack>>

\* self.fetch_protocol(protocol_id, location, copy)
FetchProtocol(self, protocol_id, location, copy) ==
    LET r == send_msg(Heaps, self, PlanCommandMessage("fetch_protocol", protocol_id, copy),
                      RetWorker(location))
    IN
    /\ Step
    /\ Commit(r)
    /\ last' = [op |-> "fetch", kind |-> "protocol", self |-> self, location |-> location,
                id |-> protocol_id, copy |-> copy, ret |-> r.ret, err |-> r.err]
    /\ UNCHANGED <<workerVars, local_worker, stack>>

\* plan commands with a name _plan_command_router has no entry for
OtherPlanCommands ==
    {PlanCommandMessage(c, i, copy) :
        c \in {"fetch", "run_plan"}, i \in 1..FirstFreshId, copy \in BOOLEAN}

NextPlan ==
    \/ \E self \in StoreWorkers, location \in StoreWorkers, plan_id \in 1..FirstFreshId,
          copy \in BOOLEAN : FetchPlan(self, plan_id, location, copy)
    \/ \E self \in StoreWorkers, location \in StoreWorkers, protocol_id \in 1..FirstFreshId,
          copy \in BOOLEAN : FetchProtocol(self, protocol_id, location, copy)
    \/ \E self \in StoreWorkers, msg \in OtherPlanCommands : RecvMsg(self, msg)

SpecPlan == InitPlan /\ [][NextPlan]_vars

\* the id fetched is stored at the location as an object of the kind asked for
FetchHits ==
    /\ last'.id \in DOMAIN _objects[osRef[last'.location]]
    /\ _objects[osRef[last'.location]][last'.id].kind = last'.kind

\* C27: fetch_plan and fetch_protocol return, for an id stored as a plan
\* (a protocol), a copy of the stored instance when copy is true and the
\* stored instance when copy is false, and nothing when the id is absent or
\* names an object of another kind; they leave every store as it was; any
\* other plan command raises PlanCommandUnknownError.
C27_FetchCopiesOnDemand ==
    [][/\ last'.op = "fetch" =>
             /\ last'.err = "none"
             /\ (FetchHits /\ last'.copy) =>
                    /\ last'.ret.t = "copy"
                    /\ Observable(last'.ret.v)
                          = Observable(_objects[osRef[last'.location]][last'.id])
             /\ (FetchHits /\ ~last'.copy) =>
                    /\ last'.ret.t = "obj"
                    /\ Observable(last'.ret.v)
                          = Observable(_objects[osRef[last'.location]][last'.id])
             /\ ~FetchHits => last'.ret.t = "none"
             /\ _objects' = _objects
       /\ (last'.op = "recv_msg" /\ last'.type = "PlanCommandMessage")
             => (last'.err = "PlanCommandUnknownError" /\ _objects' = _objects)]_vars

\* ------------------------------------------------ specification: remote search
\* worker 2 holds object 1, tagged t1 and private or not, and object
\* ExternalId with the tags tags; worker 3 holds nothing, or a tensor tagged t1.
\* Every worker logs the messages it receives.
InitFind ==
    /\ MoversConstructed(TRUE)
    /\ \E private \in BOOLEAN, tags \in {{}, {"t1"}, {"t2"}}, own \in BOOLEAN :
          _objects =
             [w \in Movers |->
                 IF w = 2
                 THEN [i \in {1, ExternalId} |->
                          IF i = 1 THEN [Tensor(1, 1, {"t1"}, 2) EXCEPT !.private = private]
                          ELSE Tensor(ExternalId, ExternalId, tags, 2)]
                 ELSE IF w = 3 /\ own
                 THEN [i \in {FirstFreshId} |-> Tensor(FirstFreshId, FirstFreshId, {"t1"}, 3)]
                 ELSE EmptyDict]
    /\ ID_PROVIDER = NewIdProvider(FirstFreshId + 1)
    /\ nops = 0
    /\ last = [op |-> "start"]

\* self.find_or_request(tag, location); local is what the store of self holds
\* under the tag before the call
FindOrRequest(self, tag, location) ==
    LET r == find_or_request(Heaps, self, tag, location) IN
    /\ Step
    /\ Commit(r)
    /\ last' = [op |-> "find_or_request", self |-> self, tag |-> tag,
                location |-> location,
                local |-> {Store(self)[i] : i \in find_by_tag(Heaps, self, TagTerm(tag))},
                ret |-> r.ret, err |-> r.err]
    /\ UNCHANGED <<workerVars, local_worker, stack>>

FindQueries == {<<>>, <<TagTerm("t1")>>, <<IdTerm(1)>>, <<TagTerm("t1"), TagTerm("t2")>>}

NextFind ==
    \/ \E self \in Movers, tag \in {"t1", "t2"}, location \in Movers :
          FindOrRequest(self, tag, location)
    \/ \E self \in Movers, query \in FindQueries, location \in Movers :
          RequestSearch(self, query, location)
    \/ \E self \in Movers, query \in FindQueries : RecvMsg(self, SearchMessage(query))

SpecFind == InitFind /\ [][NextFind]_vars

\* what the local search of the responder returns for the query just handled
Hits == search(Heaps, last'.self, last'.msg.query).ret.v

\* C28: for any query respond_to_search returns one pointer for each object
\* the local search returns, with garbage_collect_data false and the object's
\* tags, and the responder's store has the ids it had; after a request_search
\* by a worker that is no client every pointer returned is registered in its
\* store.
C28_OnePointerPerHit ==
    [][/\ (last'.op = "recv_msg" /\ last'.type = "SearchMessage") =>
             /\ last'.err = "none" /\ last'.ret.t = "list"
             /\ Cardinality(last'.ret.v) = Cardinality(Hits)
             /\ \A p \in last'.ret.v : p.kind = "pointer" /\ p.gc = "keep"
             /\ \A o \in Hits :
                   \E p \in last'.ret.v : p.id_at_location = o.id /\ p.tags = o.tags
             /\ DOMAIN _objects'[osRef[last'.self]] = last'.before
       /\ (/\ last'.op = "request_search" /\ last'.err = "none"
           /\ ~is_client_worker[last'.self]) =>
             \A p \in last'.ret.v :
                /\ p.id \in DOMAIN _objects'[osRef[last'.self]]
                /\ _objects'[osRef[last'.self]][p.id] = p]_vars

\* the call just made found entries under the tag in the caller's store
FoundLocally == last'.op = "find_or_request" /\ last'.local # {}

\* the call just made found no entry under the tag in the caller's store
FoundNothing == last'.op = "find_or_request" /\ last'.local = {}

\* every local entry found is a pointer to an object at the location asked
AllPointAtLocation ==
    \A o \in last'.local : o.kind = "pointer" /\ wid[o.location] = wid[last'.location]

\* the local entries are returned and no message is sent
AnsweredLocally ==
    /\ last'.err = "none" /\ last'.ret.t = "list" /\ last'.ret.v = last'.local
    /\ msg_history' = msg_history

\* one SearchMessage for the tag has reached the location and no other message
\* any worker; a caller that is no client holds every pointer returned
AskedLocation ==
    /\ msg_history' = [msg_history EXCEPT ![mhRef[last'.location]] =
                          Append(@, SearchMessage(<<TagTerm(last'.tag)>>))]
    /\ (last'.err = "none" /\ ~is_client_worker[last'.self]) =>
          \A p \in last'.ret.v :
             /\ p.id \in DOMAIN _objects'[osRef[last'.self]]
             /\ _objects'[osRef[last'.self]][p.id] = p

\* the call just made repeats the one before it, which a worker that is no
\* client made and which got pointers from the location
Repeated ==
    /\ last.op = "find_or_request" /\ last'.op = "find_or_request"
    /\ last.err = "none" /\ last.local = {} /\ last.ret.v # {}
    /\ ~is_client_worker[last.self]
    /\ last'.self = last.self /\ last'.tag = last.tag /\ last'.location = last.location

\* C29 as stated: find_or_request sends no message and returns the local
\* entries that carry the tag when there are some; otherwise it sends one
\* SearchMessage to location and registers the pointers returned; on a worker
\* that is no client the repetition of a call that got pointers is answered
\* locally without a message.
C29_LocalFirst ==
    [][/\ FoundLocally => AnsweredLocally
       /\ FoundNothing => AskedLocation
       /\ Repeated => (AnsweredLocally /\ last'.ret.v # {})]_vars

\* C29 amended: the local entries are returned when all of them are pointers
\* to objects at location; when one of them is not, the call raises
\* AttributeError or AssertionError, and sends no message either.
C29_LocalPointersFirst ==
    [][/\ (FoundLocally /\ AllPointAtLocation) => AnsweredLocally
       /\ (FoundLocally /\ ~AllPointAtLocation) =>
             /\ last'.err \in {"AttributeError", "AssertionError"}
             /\ msg_history' = msg_history /\ _objects' = _objects
       /\ FoundNothing => AskedLocation
       /\ Repeated => (AnsweredLocally /\ last'.ret.v # {})]_vars

\* C29 witness: worker 3 has repeated a find_or_request; the location got one
\* SearchMessage, for the first call, and the second call returned the
\* pointers the first one registered.
C29_Witness ==
    /\ last.op = "find_or_request" /\ last.err = "none"
    /\ last.self = 3 /\ last.location = 2 /\ last.local # {}
    /\ last.ret.t = "list" /\ last.ret.v = last.local
    /\ \A o \in last.local : o.kind = "pointer" /\ o.location = 2
    /\ msg_history[mhRef[2]] = <<SearchMessage(<<TagTerm(last.tag)>>)>>

\* ------------------------------------------- specification: targets by id
\* computation commands whose target is an integer id
TargetMessages ==
    {ComputationMessage(IdTarget(i), outcome, return_ids, return_value) :
        i \in 1..ExternalId, outcome \in Outcomes,
        return_ids \in {<<>>} \cup {<<j>> : j \in 1..ExternalId}, return_value \in BOOLEAN}

NextTarget == \E self \in StoreWorkers, msg \in TargetMessages : RecvMsg(self, msg)

SpecTarget == InitGet /\ [][NextTarget]_vars

\* the step handled a computation command whose target id has no entry in the
\* executing worker's store
TargetAbsent ==
    /\ last'.op = "recv_msg" /\ last'.type = "TensorCommandMessage"
    /\ last'.msg.target.id \notin DOMAIN Store(last'.self)

\* the step handled a computation command whose target id names a private
\* entry of the executing worker's store
TargetPrivate ==
    /\ last'.op = "recv_msg" /\ last'.type = "TensorCommandMessage"
    /\ last'.msg.target.id \in DOMAIN Store(last'.self)
    /\ Store(last'.self)[last'.msg.target.id].private

\* the handler returned nothing and raised nothing
AbortedSilently == last'.err = "none" /\ last'.ret.t = "none"

\* C30 as stated: a computation command whose target is an integer id with no
\* entry in the executing worker's store, or the id of a private entry,
\* aborts silently: the handler returns nothing, raises nothing and leaves the
\* store unchanged.
C30_AbortsSilently ==
    [][(TargetAbsent \/ TargetPrivate) => (AbortedSilently /\ _objects' = _objects)]_vars

\* C30 amended: for an id with no entry the handler raises ObjectNotFoundError
\* and leaves the store unchanged; for the id of a private entry it returns
\* nothing and raises nothing, and the store is unchanged but for the GC
\* toggle of that entry, which is set to do-not-collect.
C30_PrivateAbortsSilently ==
    [][/\ TargetAbsent => (last'.err = "ObjectNotFoundError" /\ _objects' = _objects)
       /\ TargetPrivate =>
             /\ AbortedSilently
             /\ _objects' = [_objects EXCEPT ![osRef[last'.self]][last'.msg.target.id] =
                                 IF @.gc # "none" THEN [@ EXCEPT !.gc = "keep"] ELSE @]]_vars

\* C30 witness: a command that yields a value and targets a private entry with
\* a GC toggle has been handled; nothing was returned or registered and the
\* toggle is off.
C30_Witness ==
    /\ last.op = "recv_msg" /\ last.type = "TensorCommandMessage"
    /\ last.err = "none" /\ last.ret.t = "none"
    /\ last.msg.outcome.kind = "values" /\ last.msg.return_value
    /\ last.msg.target.id \in DOMAIN Store(last.self)
    /\ Store(last.self)[last.msg.target.id].private
    /\ Store(last.self)[last.msg.target.id].gc = "keep"
    /\ DOMAIN Store(last.self) = last.before

\* ------------------------------------------ specification: the operation
\* operations that raise when they are invoked
FailingOutcomes ==
    {[kind |-> "error", k |-> 0], [kind |-> "type_error", k |-> 0],
     [kind |-> "decoded", k |-> 1]}

\* worker 2 holds object 1, tagged t1 and t2 and private or not, and object
\* ExternalId, tagged t1 or not at all: a search for t1 has one or two
\* results, one for t2 has one and one for t3 has none
InitOp ==
    /\ WorkersConstructed
    /\ \E private \in BOOLEAN, tags \in {{}, {"t1"}} :
          _objects =
             [w \in StoreWorkers |->
                 IF w = 2
                 THEN [i \in {1, ExternalId} |->
                          IF i = 1
                          THEN [Tensor(1, 1, {"t1", "t2"}, 2) EXCEPT !.private = private]
                          ELSE Tensor(ExternalId, ExternalId, tags, 2)]
                 ELSE EmptyDict]
    /\ ID_PROVIDER = NewIdProvider(FirstFreshId)
    /\ nops = 0
    /\ last = [op |-> "start"]

OpTargets ==
    {FunctionTarget, SelfTarget, IdTarget(1)} \cup {TagTarget(tag) : tag \in Tags}

\* the operations: in place, without a result, with a scalar, with one or two
\* values, or raising
OpOutcomes ==
    {o \in Outcomes : o.kind = "values" => o.k <= 2} \cup FailingOutcomes

\* computation commands: every kind of target and of operation, no return id
\* or one
OpMessages ==
    {ComputationMessage(target, outcome, return_ids, return_value) :
        target \in OpTargets, outcome \in OpOutcomes,
        return_ids \in {<<>>, <<ExternalId>>}, return_value \in BOOLEAN}

\* worker 2, which holds the objects, executes
NextOp ==
    \/ \E msg \in OpMessages : RecvMsg(2, msg)
    \/ \E target \in {FunctionTarget, IdTarget(1), TagTarget("t1")},
          outcome \in OpOutcomes,
          return_ids \in {<<>>, <<ExternalId>>, <<1, ExternalId>>, <<0>>},
          return_value \in BOOLEAN :
          SendCommand(local_worker, 2, target, outcome, return_ids, return_value)

SpecOp == InitOp /\ [][NextOp]_vars

\* the step handled a computation command whose target is the string tag
StringTarget ==
    /\ last'.op = "recv_msg" /\ last'.type = "TensorCommandMessage"
    /\ last'.msg.action = "computation" /\ last'.msg.target.t = "tag"

\* the ids of the objects the local search for the target string returns
Matches == find_by_tag(Heaps, last'.self, TagTerm(last'.msg.target.tag))

\* C31: a computation command whose target is a string other than "self" has
\* its operation invoked exactly when the local search for the string returns
\* one object, and then on that object; with no match or several the command
\* fails with AssertionError, nothing is invoked and the store is unchanged.
\* With the target "self" the operation is invoked on the executing worker.
C31_ExactlyOneMatch ==
    [][/\ StringTarget =>
             /\ Cardinality(Matches) = 1 =>
                   /\ last'.calls # <<>>
                   /\ \A n \in DOMAIN last'.calls :
                         /\ last'.calls[n].t = "obj" /\ last'.calls[n].id \in Matches
                   /\ last'.err # "AssertionError"
             /\ Cardinality(Matches) # 1 =>
                   /\ last'.err = "AssertionError" /\ last'.calls = <<>>
                   /\ _objects' = _objects
       /\ (/\ last'.op = "recv_msg" /\ last'.type = "TensorCommandMessage"
           /\ last'.msg.action = "computation" /\ last'.msg.target.t = "self") =>
             /\ last'.calls # <<>>
             /\ \A n \in DOMAIN last'.calls :
                   /\ last'.calls[n].t = "worker" /\ last'.calls[n].id = last'.self
             /\ last'.err # "AssertionError"]_vars

\* C31 witness: a search for the target string had two results and the command
\* failed without an invocation.
C31_Witness ==
    /\ last.op = "recv_msg" /\ last.type = "TensorCommandMessage"
    /\ last.msg.action = "computation" /\ last.msg.target.t = "tag"
    /\ Cardinality(find_by_tag(Heaps, last.self, TagTerm(last.msg.target.tag))) = 2
    /\ last.err = "AssertionError" /\ last.calls = <<>>

\* the step handled a computation command and invoked its operation
Invoked ==
    /\ last'.op = "recv_msg" /\ last'.type = "TensorCommandMessage"
    /\ last'.msg.action = "computation" /\ last'.calls # <<>>

\* the operation of the command is in place and has a target
InPlaceOnTarget ==
    last'.msg.outcome.kind = "inplace" /\ last'.msg.target.t # "function"

\* the operation has a result that is not None and that has as many values as
\* return ids are requested, or that is a scalar
ResultFits ==
    LET o == last'.msg.outcome IN
    \/ o.kind = "scalar"
    \/ o.kind = "values" /\ o.k = Len(last'.msg.return_ids)
    \/ o.kind = "inplace" /\ last'.msg.target.t = "function"
          /\ o.k = Len(last'.msg.return_ids)
    \/ o.kind = "decoded" /\ last'.msg.target.t # "function"
          /\ o.k = Len(last'.msg.return_ids)

\* every requested return id names a value of the response in the store of the
\* executing worker
StoredUnderReturnIds ==
    \A j \in DOMAIN last'.msg.return_ids :
        LET id == last'.msg.return_ids[j]
            store == _objects'[osRef'[last'.self]]
        IN
        /\ id \in DOMAIN store
        /\ store[id].val < 0
        /\ store[id].id = id

\* send_command returned one pointer per return id, in their order, each located
\* at the recipient
OnePointerPerReturnId ==
    LET ids == last'.return_ids IN
    /\ last'.err = "none"
    /\ Len(ids) = 1 =>
          /\ last'.ret.t = "obj" /\ last'.ret.v.kind = "pointer"
          /\ last'.ret.v.location = last'.recipient
          /\ last'.ret.v.id_at_location = ids[1]
    /\ Len(ids) # 1 =>
          /\ last'.ret.t = "pointers" /\ Len(last'.ret.v) = Len(ids)
          /\ \A j \in DOMAIN ids :
                /\ last'.ret.v[j].kind = "pointer"
                /\ last'.ret.v[j].location = last'.recipient
                /\ last'.ret.v[j].id_at_location = ids[j]

InitLog ==
    /\ alive = StoreWorkers
    /\ wid = [w \in StoreWorkers |-> w - 1]
    /\ wkind = [w \in StoreWorkers |-> "Base"]
    /\ is_client_worker = [w \in StoreWorkers |-> w = 1]
    /\ log_msgs \in [StoreWorkers -> BOOLEAN]
    /\ kwRef = [w \in StoreWorkers |-> w]
    /\ osRef = [w \in StoreWorkers |-> w]
    /\ mhRef = [w \in StoreWorkers |-> w]
    /\ _message_router = [w \in StoreWorkers |-> NewRouter(w)]
    /\ _known_workers = [w \in StoreWorkers |-> [x \in 0..(NumWorkers - 1) |-> x + 1]]
    /\ msg_history = [w \in StoreWorkers |-> <<>>]
    /\ local_worker = 1
    /\ stack = <<>>
    /\ \E holder \in StoreWorkers :
       \E o \in Profiles(1, holder) :
          _objects = [w \in StoreWorkers |->
                         IF w = holder THEN [i \in {1} |-> o] ELSE EmptyDict]
    /\ ID_PROVIDER = NewIdProvider(FirstFreshId)
    /\ nops = 0
    /\ last = [op |-> "start"]

\* messages whose handlers return, raise, or send a message themselves
LogMessages ==
    LET plain == {ObjectMessage(ExternalTensor(2)), IsNoneMessage(1),
                  ForceObjectDeleteMessage(1), SearchMessage(<<>>)}
                    \cup {ObjectRequestMessage(i, NoUser) : i \in {1, ExternalId}}
    IN  plain \cup {WorkerCommandMessage(m, RetWorker(w), ExternalId) :
                        m \in plain, w \in StoreWorkers}

NextLog == \E self \in StoreWorkers, msg \in LogMessages : RecvMsg(self, msg)

SpecLog == InitLog /\ [][NextLog]_vars

\* the calls of recv_msg a step makes, in their order: the transport hands msg
\* to self, and the handler of a worker command sends the message it carries to
\* its location; no other handler of LogMessages sends a message
Receipts(self, msg) ==
    IF msg.type = "WorkerCommandMessage"
    THEN <<[self |-> self, msg |-> msg], [self |-> msg.location.v, msg |-> msg.message]>>
    ELSE <<[self |-> self, msg |-> msg]>>

\* the messages worker w received during the step, in the order of receipt
ReceivedBy(w) ==
    LET got == SelectSeq(Receipts(last'.self, last'.msg),
                         LAMBDA e : mhRef[e.self] = mhRef[w])
    IN  [j \in 1..Len(got) |-> got[j].msg]

\* C34: a step in which messages are received appends to the log of every
\* worker that logs exactly the messages it received, in the order of receipt,
\* the message handed to recv_msg before the one its handler sent, whether the
\* handlers raised or not; the log of a worker that does not log stays as it is.
C34_LogIsReceipts ==
    [][last'.op = "recv_msg" =>
          \A w \in alive :
             msg_history'[mhRef[w]] =
                IF log_msgs[w] THEN msg_history[mhRef[w]] \o ReceivedBy(w)
                ELSE msg_history[mhRef[w]]]_vars

\* C34 witness: a worker that logs has received a worker command, whose handler
\* made it receive a second message and raised; its log holds both in that
\* order, after the message of an earlier step.
C34_Witness ==
    /\ last.op = "recv_msg" /\ log_msgs[last.self] /\ last.err # "none"
    /\ last.type = "WorkerCommandMessage" /\ last.msg.location.v = last.self
    /\ Len(msg_history[mhRef[last.self]]) = 3
    /\ msg_history[mhRef[last.self]][2] = last.msg
    /\ msg_history[mhRef[last.self]][3] = last.msg.message

\* ------------------------------------- specification: the registration scope
\* the objects registered: two ids, two values
ScopeObjects(self) ==
    {Tensor(i, v, tags, self) : i \in {1, ExternalId}, v \in 1..2, tags \in {{}, {"t1"}}}

NextScope ==
    \/ \E self \in StoreWorkers :
       \E obj \in ScopeObjects(self) : Register(self, obj)
    \/ \E self \in StoreWorkers, raises \in BOOLEAN :
       \E obj \in ScopeObjects(self) : RegistrationEnabled(self, obj, raises)

SpecScope == InitClient /\ [][NextScope]_vars

\* C36: a registration in the registration_enabled scope takes effect, and when
\* the scope is left, normally or by an error, is_client_worker of the worker
\* has the value it had before the scope, for a client worker and for any other.
C36_ScopeRestoresFlag ==
    [][last'.op = "registration_enabled" =>
          /\ last'.obj_id \in DOMAIN _objects'[osRef[last'.self]]
          /\ is_client_worker'[last'.self] = is_client_worker[last'.self]]_vars

====
